---- MODULE Spec2Model ----
(***************************************************************************)
(* Model of the a11yomatic analysis and remediation engine.                *)
(*                                                                         *)
(* The persisted store (SQLAlchemy models of backend/app/models/pdf.py) is *)
(* four tables, each a function from a row identifier to a row.  A commit  *)
(* is the unit of visibility: every action below is the code between two   *)
(* commits (or between two awaits on an external collaborator), so the     *)
(* states of the model are exactly the persisted states another request    *)
(* can observe.                                                            *)
(*                                                                         *)
(* A commit can raise.  The code never calls Session.rollback(), and a     *)
(* SQLAlchemy session whose commit raised refuses every later query and    *)
(* commit until rollback() is called, so a session that saw a failed       *)
(* commit stays unusable for the rest of the task that owns it.            *)
(***************************************************************************)
EXTENDS Integers, Sequences, FiniteSets, Bags, TLC

VARIABLES
    pdfs,       \* pdf_documents:      id -> [user_id, processing_status, file_path]
    issues,     \* accessibility_issues: id -> [pdf_id, issue_type, severity]
    reports,    \* analysis_reports:   id -> [pdf_id, total_issues, ..., overall_score, wcag_compliance_level]
    plans,      \* remediation_plans:  id -> [issue_id, ai_generated_content, user_approved, implementation_status]
    nextId,     \* next fresh row identifier (uuid4 in the source)
    files,      \* the stored files: path -> what the extraction libraries read from it
    anTasks,    \* analyze_pdf_task background tasks, in the order they were accepted
    genReqs,    \* bag of generate_remediation requests suspended at the text-generation await
    genTasks,   \* bag of process_bulk_remediations background tasks that have not returned
    apprTasks,  \* bag of process_bulk_approvals background tasks that have not returned
    implTasks,  \* bag of process_bulk_implementations background tasks that have not returned
    upReqs,     \* upload_pdf requests that have committed their row, in the order of the commits
    ev          \* the operation that produced the current state, with its outcome

vars == <<pdfs, issues, reports, plans, nextId, files, anTasks, genReqs, genTasks, apprTasks, implTasks,
          upReqs, ev>>

dbVars == <<pdfs, issues, reports, plans, nextId>>

(***************************************************************************)
(* Bounds of the model.                                                    *)
(***************************************************************************)
MaxAnalysisTasks == 2

MaxRunIssues == 2

\* requests suspended at an await plus background tasks, in flight at the same time
MaxJobs == 2

(***************************************************************************)
(* Closed enumerations of the source.                                      *)
(***************************************************************************)
Users == {"u1", "u2"}

Severities == {"critical", "high", "medium", "low"}

Event(op, who, target, result) ==
    [op |-> op, who |-> who, target |-> target, result |-> result]

Max(a, b) == IF a >= b THEN a ELSE b

Min(a, b) == IF a <= b THEN a ELSE b

\* a table without the rows whose identifier is in ids
Without(table, ids) == [i \in (DOMAIN table) \ ids |-> table[i]]

(***************************************************************************)
(* Scorer (PDFProcessor), used by analyze_pdf to build the result record.  *)
(***************************************************************************)
SeverityPenalty(sev) ==
    CASE sev = "critical" -> 15
      [] sev = "high" -> 10
      [] sev = "medium" -> 5
      [] sev = "low" -> 2
      [] OTHER -> 2

RECURSIVE TotalPenalty(_)
TotalPenalty(iss) ==
    IF iss = <<>> THEN 0
    ELSE SeverityPenalty(Head(iss).severity) + TotalPenalty(Tail(iss))

\* mutant of calculate_accessibility_score: the score is clamped after the
\* penalties, and the bonuses are added to the clamped value
calculate_accessibility_scoreMut(iss, metadata) ==
    Min(100, Max(0, 100 - TotalPenalty(iss))
             + (IF metadata.is_tagged THEN 10 ELSE 0)
             + (IF metadata.title # "" THEN 5 ELSE 0))

calculate_accessibility_score(iss, metadata) ==
    LET afterPenalties == 100 - TotalPenalty(iss)
        afterTagged == afterPenalties + (IF metadata.is_tagged THEN 10 ELSE 0)
        base_score == afterTagged + (IF metadata.title # "" THEN 5 ELSE 0)
    IN  Max(0, Min(100, base_score))

\* mutant of categorize_issues: the counts dictionary has no "low" key
categorize_issuesMut(iss) ==
    [s \in Severities |->
        IF s = "low" THEN 0 ELSE Cardinality({i \in DOMAIN iss : iss[i].severity = s})]

categorize_issues(iss) ==
    [s \in Severities |-> Cardinality({i \in DOMAIN iss : iss[i].severity = s})]

\* mutant of determine_wcag_level: the first threshold is exclusive
determine_wcag_levelMut(score) ==
    IF score > 90 THEN "AAA"
    ELSE IF score >= 75 THEN "AA"
    ELSE IF score >= 60 THEN "A"
    ELSE "Non-compliant"

determine_wcag_level(score) ==
    IF score >= 90 THEN "AAA"
    ELSE IF score >= 75 THEN "AA"
    ELSE IF score >= 60 THEN "A"
    ELSE "Non-compliant"

\* the result dictionary analyze_pdf builds from the detected issues and the metadata
AnalysisResult(iss, metadata) ==
    LET overall_score == calculate_accessibility_score(iss, metadata)
        issue_counts == categorize_issues(iss)
    IN  [ total_issues |-> Len(iss),
          critical_issues |-> issue_counts["critical"],
          high_issues |-> issue_counts["high"],
          medium_issues |-> issue_counts["medium"],
          low_issues |-> issue_counts["low"],
          overall_score |-> overall_score,
          issues |-> iss,
          wcag_compliance_level |-> determine_wcag_level(overall_score) ]

(***************************************************************************)
(* Stored files.  A readable file is the issue list the two detector       *)
(* passes report for it and the metadata record extract_metadata returns.  *)
(* A path with no readable file behind it makes extract_metadata return    *)
(* its error record and both detector passes return no issue.  A file can  *)
(* also be given page by page (see the detector passes below); a file that *)
(* is given by its issue list has at least one page, and every call of the *)
(* fix methods on its pages returns.                                       *)
(***************************************************************************)
IssueDraft(type, sev) == [issue_type |-> type, severity |-> sev]

\* upload_dir / f"{pdf_doc.id}.pdf"; fixed counts the passes of
\* _generate_fixed_file_path the path has been through
UploadPath(d) == [stem |-> d, fixed |-> 0]

\* no path: the fixed_file_path of a result that produced no file (None)
NoPath == [stem |-> 0, fixed |-> 0]

RunDrafts ==
    { IssueDraft("missing_text", "critical"), IssueDraft("missing_alt_text", "high") }

RunIssueLists ==
    UNION { [1..n -> RunDrafts] : n \in 0..MaxRunIssues }

RunMetadatas ==
    { [is_tagged |-> FALSE, title |-> ""], [is_tagged |-> TRUE, title |-> "Report"] }

FileContents ==
    { [issues |-> l, metadata |-> m] : l \in RunIssueLists, m \in RunMetadatas }

\* {"error": str(e)}: metadata.get("is_tagged") and metadata.get("title") are None
ErrorMetadata == [is_tagged |-> FALSE, title |-> ""]

extract_metadata(path) ==
    IF path \in DOMAIN files THEN files[path].metadata ELSE ErrorMetadata

(***************************************************************************)
(* services/pdf_processor.py: the two detector passes, for a file that is  *)
(* given page by page.  A page is a record                                 *)
(*   text   : 0 no text, 1 fewer than ten characters, 2 ten or more        *)
(*   tables : what extract_tables returns, a sequence of tables, each a    *)
(*            sequence of rows, each a sequence of cells                   *)
(*   images : the number of images get_images returns                      *)
(*   blocks : whether get_text("dict") has a text block with lines         *)
(*   raises : the extraction call that raises on this page, or "none"      *)
(***************************************************************************)
PageIssue(type, sev, page) == [issue_type |-> type, severity |-> sev, page_number |-> page]

\* sum(1 for cell in first_row if cell and str(cell).strip()); a cell is "", a
\* blank, which strip() empties, or a word
NonEmptyCells(row) ==
    Cardinality({ j \in DOMAIN row :
                    row[j] # "" /\ (IF row[j] = " " THEN "" ELSE row[j]) # "" })

\* mutant of has_table_headers: the row count of the table is not looked at
has_table_headersMut(table) ==
    IF table = <<>> THEN FALSE
    ELSE IF table[1] = <<>> THEN FALSE
    ELSE 2 * NonEmptyCells(table[1]) >= Len(table[1])

\* PDFProcessor._has_table_headers; non_empty >= len(first_row) * 0.5
has_table_headers(table) ==
    IF Len(table) < 2 THEN FALSE
    ELSE IF table[1] = <<>> THEN FALSE
    ELSE 2 * NonEmptyCells(table[1]) >= Len(table[1])

\* the issues the loop over the tables of one page appends
RECURSIVE TableIssues(_, _, _)
TableIssues(tables, t, page) ==
    IF t > Len(tables) THEN <<>>
    ELSE (IF ~has_table_headers(tables[t])
          THEN <<PageIssue("table_missing_headers", "high", page)>> ELSE <<>>)
         \o (IF Len(tables[t]) > 10 /\ Len(tables[t][1]) > 5
             THEN <<PageIssue("complex_table", "medium", page)>> ELSE <<>>)
         \o TableIssues(tables, t + 1, page)

\* PDFProcessor._analyze_content from page k on: the try block is around the
\* whole loop, so an extraction call that raises ends the pass with the issues
\* appended so far
RECURSIVE analyze_content(_, _)
analyze_content(pages, k) ==
    IF k > Len(pages) THEN <<>>
    ELSE LET p == pages[k]
             text_issue == IF p.text < 2
                           THEN <<PageIssue("missing_text", "critical", k)>> ELSE <<>>
         IN  IF p.raises = "extract_text" THEN <<>>
             ELSE IF p.raises = "extract_tables" THEN text_issue
             ELSE text_issue \o TableIssues(p.tables, 1, k) \o analyze_content(pages, k + 1)

\* PDFProcessor._analyze_structure from page k on, with the same try block
RECURSIVE analyze_structure(_, _)
analyze_structure(pages, k) ==
    IF k > Len(pages) THEN <<>>
    ELSE LET p == pages[k]
             image_issues == [n \in 1..p.images |-> PageIssue("missing_alt_text", "high", k)]
             heading_issue == IF ~p.blocks /\ k = 1
                              THEN <<PageIssue("missing_heading_structure", "medium", k)>>
                              ELSE <<>>
             contrast_issue == IF p.images > 0 /\ p.text > 0
                               THEN <<PageIssue("potential_contrast_issue", "low", k)>>
                               ELSE <<>>
         IN  IF p.raises = "get_images" THEN <<>>
             ELSE IF p.raises = "get_text" THEN image_issues
             ELSE image_issues \o heading_issue \o contrast_issue
                  \o analyze_structure(pages, k + 1)

\* _analyze_content followed by _analyze_structure.  A file is given either page
\* by page, and then the passes are computed, or by the issue list the passes
\* report for it.
DetectedIssues(path) ==
    IF path \notin DOMAIN files THEN <<>>
    ELSE IF "pages" \in DOMAIN files[path]
    THEN analyze_content(files[path].pages, 1) \o analyze_structure(files[path].pages, 1)
    ELSE files[path].issues

\* PDFProcessor.analyze_pdf when it returns
analyze_pdf(path) == AnalysisResult(DetectedIssues(path), extract_metadata(path))

\* what a db.commit() can do: persist the unit of work, or raise
CommitOutcomes == {"ok", "raise"}

(***************************************************************************)
(* api/v1/analysis.py                                                      *)
(***************************************************************************)
\* PDFDocument.id == pdf_id, PDFDocument.user_id == current_user["user_id"]
OwnedPdf(pdf_id, user_id) ==
    pdf_id \in DOMAIN pdfs /\ pdfs[pdf_id].user_id = user_id

\* mutant of AnalysisInProgress: the guard compares with the status name of the
\* model's column comment ("processing"), which no code path ever stores
AnalysisInProgressMut(pdf) == pdf.processing_status = "processing"

\* the status guard of start_analysis
AnalysisInProgress(pdf) == pdf.processing_status = "analyzing"

\* POST /{pdf_id}/analyze
start_analysis(u, d) ==
    /\ IF ~OwnedPdf(d, u)
       THEN /\ ev' = Event("start_analysis", u, d, "404")
            /\ UNCHANGED anTasks
       ELSE IF AnalysisInProgress(pdfs[d])
       THEN /\ ev' = Event("start_analysis", u, d, "400")
            /\ UNCHANGED anTasks
       ELSE /\ Len(anTasks) < MaxAnalysisTasks
            /\ anTasks' = Append(anTasks, [pdf_id |-> d, pc |-> "queued"])
            /\ ev' = Event("start_analysis", u, d, "202")
    /\ UNCHANGED <<upReqs, dbVars, files, genReqs, genTasks, apprTasks, implTasks>>

\* analyze_pdf_task, from its start to the commit of "analyzing"
analyze_pdf_task_begin(t) ==
    /\ t \in DOMAIN anTasks
    /\ anTasks[t].pc = "queued"
    /\ LET d == anTasks[t].pdf_id IN
       IF d \notin DOMAIN pdfs
       THEN /\ anTasks' = [anTasks EXCEPT ![t].pc = "not_found"]
            /\ ev' = Event("analyze_begin", "-", d, "not_found")
            /\ UNCHANGED pdfs
       ELSE \E commit \in CommitOutcomes :
            IF commit = "ok"
            THEN /\ pdfs' = [pdfs EXCEPT ![d].processing_status = "analyzing"]
                 /\ anTasks' = [anTasks EXCEPT ![t].pc = "analyzing"]
                 /\ ev' = Event("analyze_begin", "-", d, "analyzing")
            ELSE \* the handler's own query raises on the session whose commit failed
                 /\ anTasks' = [anTasks EXCEPT ![t].pc = "crashed"]
                 /\ ev' = Event("analyze_begin", "-", d, "commit_raised")
                 /\ UNCHANGED pdfs
    /\ UNCHANGED <<upReqs, issues, reports, plans, nextId, files, genReqs, genTasks, apprTasks, implTasks>>

\* mutant of NewIssueRows: the last issue of the run is not added to the unit of work
NewIssueRowsMut(pdf_id, iss, first) ==
    [ i \in first..(first + Len(iss) - 2) |->
        [ pdf_id |-> pdf_id,
          issue_type |-> iss[i - first + 1].issue_type,
          severity |-> iss[i - first + 1].severity ] ]

\* the AccessibilityIssue rows one run adds, with fresh identifiers from first on
NewIssueRows(pdf_id, iss, first) ==
    [ i \in first..(first + Len(iss) - 1) |->
        [ pdf_id |-> pdf_id,
          issue_type |-> iss[i - first + 1].issue_type,
          severity |-> iss[i - first + 1].severity ] ]

\* the AnalysisReport row one run adds
NewReportRow(pdf_id, res) ==
    [ pdf_id |-> pdf_id,
      overall_score |-> res.overall_score,
      total_issues |-> res.total_issues,
      critical_issues |-> res.critical_issues,
      high_issues |-> res.high_issues,
      medium_issues |-> res.medium_issues,
      low_issues |-> res.low_issues,
      wcag_compliance_level |-> res.wcag_compliance_level ]

\* the except branch of analyze_pdf_task, entered on a session that still works
MarkFailed(t, d, why) ==
    IF d \notin DOMAIN pdfs
    THEN /\ anTasks' = [anTasks EXCEPT ![t].pc = "failed"]
         /\ ev' = Event("analyze_run", "-", d, why)
         /\ UNCHANGED pdfs
    ELSE \E commit \in CommitOutcomes :
         IF commit = "ok"
         THEN /\ pdfs' = [pdfs EXCEPT ![d].processing_status = "failed"]
              /\ anTasks' = [anTasks EXCEPT ![t].pc = "failed"]
              /\ ev' = Event("analyze_run", "-", d, why)
         ELSE /\ anTasks' = [anTasks EXCEPT ![t].pc = "crashed"]
              /\ ev' = Event("analyze_run", "-", d, "failed_commit_raised")
              /\ UNCHANGED pdfs

\* analyze_pdf_task, from the call of analyze_pdf to its last commit
analyze_pdf_task_run(t) ==
    /\ t \in DOMAIN anTasks
    /\ anTasks[t].pc = "analyzing"
    /\ LET d == anTasks[t].pdf_id IN
       \E raised \in BOOLEAN :
          IF raised
          THEN /\ MarkFailed(t, d, "analysis_raised")
               /\ UNCHANGED <<issues, reports, nextId>>
          ELSE \E commit \in CommitOutcomes :
               LET res == analyze_pdf(IF d \in DOMAIN pdfs THEN pdfs[d].file_path ELSE NoPath)
                   rid == nextId + Len(res.issues)
               IN  IF commit = "ok" /\ d \in DOMAIN pdfs
                   THEN /\ issues' = issues @@ NewIssueRows(d, res.issues, nextId)
                        /\ reports' = reports @@ (rid :> NewReportRow(d, res))
                        /\ pdfs' = [pdfs EXCEPT ![d].processing_status = "completed"]
                        /\ nextId' = rid + 1
                        /\ anTasks' = [anTasks EXCEPT ![t].pc = "completed"]
                        /\ ev' = Event("analyze_run", "-", d, "completed")
                   ELSE \* nothing of the unit of work is persisted, and the except
                        \* branch's query raises on the session whose commit failed
                        /\ anTasks' = [anTasks EXCEPT ![t].pc = "crashed"]
                        /\ ev' = Event("analyze_run", "-", d, "commit_raised")
                        /\ UNCHANGED <<pdfs, issues, reports, nextId>>
    /\ UNCHANGED <<upReqs, plans, files, genReqs, genTasks, apprTasks, implTasks>>

(***************************************************************************)
(* Specification of the analysis workflow after two uploads: two uploaded  *)
(* documents, one per user, the first with any readable file and the       *)
(* second with a file that cannot be opened, and any interleaving of       *)
(* analysis triggers and background tasks.                                 *)
(***************************************************************************)
UploadedPdf(u, path) ==
    [user_id |-> u, processing_status |-> "pending", file_path |-> path]

(***************************************************************************)
(* api/v1/pdfs.py: upload.  The handler commits the new row with an empty  *)
(* file_path, writes the file under the row's identifier and commits the   *)
(* path; other requests see the row between the two commits.               *)
(***************************************************************************)
MaxUploads == 1

\* file_path="": the path of the row before the file is saved; it names no file
EmptyPath == [stem |-> -1, fixed |-> 0]

\* POST /upload up to its first commit.  A request whose file name does not end
\* in .pdf, or whose content is too large, is refused.
upload_pdf(u, valid) ==
    /\ IF ~valid
       THEN /\ ev' = Event("upload", u, 0, "400")
            /\ UNCHANGED <<pdfs, nextId, upReqs>>
       ELSE /\ Len(upReqs) < MaxUploads
            /\ \E commit \in CommitOutcomes :
                 IF commit = "ok"
                 THEN /\ pdfs' = pdfs @@ (nextId :> UploadedPdf(u, EmptyPath))
                      /\ nextId' = nextId + 1
                      /\ upReqs' = Append(upReqs, [pdf_id |-> nextId, pc |-> "saving"])
                      /\ ev' = Event("upload", u, nextId, "row_committed")
                 ELSE /\ ev' = Event("upload", u, 0, "500")
                      /\ UNCHANGED <<pdfs, nextId, upReqs>>
    /\ UNCHANGED <<issues, reports, plans, files, anTasks, genReqs, genTasks, apprTasks, implTasks>>

\* the handler writes the uploaded content to upload_dir / f"{pdf_doc.id}.pdf";
\* content is what the extraction libraries will read from it
upload_pdf_save(k, content) ==
    /\ k \in DOMAIN upReqs
    /\ upReqs[k].pc = "saving"
    /\ files' = (UploadPath(upReqs[k].pdf_id) :> content) @@ files
    /\ upReqs' = [upReqs EXCEPT ![k].pc = "saved"]
    /\ ev' = Event("upload_save", "-", upReqs[k].pdf_id, "-")
    /\ UNCHANGED <<dbVars, anTasks, genReqs, genTasks, apprTasks, implTasks>>

\* pdf_doc.file_path = str(file_path); db.commit().  The update raises when the
\* row has been deleted meanwhile.
upload_pdf_finish(k) ==
    /\ k \in DOMAIN upReqs
    /\ upReqs[k].pc = "saved"
    /\ LET d == upReqs[k].pdf_id IN
       \E commit \in CommitOutcomes :
          IF commit = "ok" /\ d \in DOMAIN pdfs
          THEN /\ pdfs' = [pdfs EXCEPT ![d].file_path = UploadPath(d)]
               /\ upReqs' = [upReqs EXCEPT ![k].pc = "done"]
               /\ ev' = Event("upload_finish", "-", d, "201")
          ELSE /\ upReqs' = [upReqs EXCEPT ![k].pc = "failed"]
               /\ ev' = Event("upload_finish", "-", d, "500")
               /\ UNCHANGED pdfs
    /\ UNCHANGED <<issues, reports, plans, nextId, files, anTasks, genReqs, genTasks, apprTasks,
                   implTasks>>

AnalysisPdfIds == {1, 2}

InitAnalysis ==
    /\ pdfs = (1 :> UploadedPdf("u1", UploadPath(1))) @@ (2 :> UploadedPdf("u2", UploadPath(2)))
    /\ issues = <<>>
    /\ reports = <<>>
    /\ plans = <<>>
    /\ nextId = 10
    /\ \E c \in FileContents : files = (UploadPath(1) :> c)
    /\ anTasks = <<>>
    /\ genReqs = EmptyBag
    /\ genTasks = EmptyBag
    /\ apprTasks = EmptyBag
    /\ implTasks = EmptyBag
    /\ upReqs = <<>>
    /\ ev = Event("init", "-", 0, "-")

NextAnalysis ==
    \/ \E u \in Users, d \in AnalysisPdfIds : start_analysis(u, d)
    \/ \E t \in 1..MaxAnalysisTasks : analyze_pdf_task_begin(t)
    \/ \E t \in 1..MaxAnalysisTasks : analyze_pdf_task_run(t)

SpecAnalysis == InitAnalysis /\ [][NextAnalysis]_vars

(***************************************************************************)
(* Specification of uploads with the analysis workflow, from the empty     *)
(* database: user u1 uploads files, and both users trigger the analysis of *)
(* every document there is, while uploads and background tasks are under   *)
(* way.                                                                    *)
(***************************************************************************)
\* the uploaded files: one in which the detectors find nothing, one with two issues
UploadContents ==
    { [issues |-> l, metadata |-> [is_tagged |-> FALSE, title |-> ""]] :
        l \in { <<>>, <<IssueDraft("missing_text", "critical"),
                        IssueDraft("missing_alt_text", "high")>> } }

InitUpload ==
    /\ pdfs = <<>>
    /\ issues = <<>>
    /\ reports = <<>>
    /\ plans = <<>>
    /\ nextId = 1
    /\ files = <<>>
    /\ anTasks = <<>>
    /\ genReqs = EmptyBag
    /\ genTasks = EmptyBag
    /\ apprTasks = EmptyBag
    /\ implTasks = EmptyBag
    /\ upReqs = <<>>
    /\ ev = Event("init", "-", 0, "-")

NextUpload ==
    \/ \E valid \in BOOLEAN : upload_pdf("u1", valid)
    \/ \E k \in 1..MaxUploads, c \in UploadContents : upload_pdf_save(k, c)
    \/ \E k \in 1..MaxUploads : upload_pdf_finish(k)
    \/ \E u \in Users, d \in DOMAIN pdfs : start_analysis(u, d)
    \/ \E t \in 1..MaxAnalysisTasks : analyze_pdf_task_begin(t)
    \/ \E t \in 1..MaxAnalysisTasks : analyze_pdf_task_run(t)

SpecUpload == InitUpload /\ [][NextUpload]_vars

(***************************************************************************)
(* Persisted store shared by the remediation endpoints.                    *)
(***************************************************************************)
\* the lists .all() can return for a query without ORDER BY whose rows are S:
\* the rows in any order
Orders(S) ==
    { s \in [1..Cardinality(S) -> S] : \A x \in S : \E k \in DOMAIN s : s[k] = x }

\* a bag with one more, or one less, copy of e
Put(bag, e) == bag (+) SetToBag({e})

Take(bag, e) == bag (-) SetToBag({e})

\* RemediationPlan rows of an issue
PlansOfIssue(i) == { p \in DOMAIN plans : plans[p].issue_id = i }

\* a fresh RemediationPlan.id (uuid4 in the source) for a plan of issue i
FreshPlanId(i) == 10 * i + Cardinality(PlansOfIssue(i))

\* mutant of UniqueIssueId: the column is declared without unique=True
UniqueIssueIdMut(i) == TRUE

\* RemediationPlan.issue_id is unique: an INSERT for an issue that has a plan is refused
UniqueIssueId(i) == PlansOfIssue(i) = {}

\* RemediationPlan(issue_id, ai_generated_content=suggestion, user_approved=False, "pending")
NewPlanRow(i, suggestion) ==
    [ issue_id |-> i,
      ai_generated_content |-> suggestion,
      user_approved |-> FALSE,
      implementation_status |-> "pending" ]

\* the text-generation call of the two generation paths: it returns a text or raises
SuggestionOutcomes == {"suggestion", "raise"}

\* db.add(remediation); db.commit(): the row is persisted when the issue still
\* exists, no other plan holds its issue_id and the commit itself does not raise
InsertPlanCommits(i, commit) ==
    i \in DOMAIN issues /\ UniqueIssueId(i) /\ commit = "ok"

\* mutant of ExistingPlans: the existing-plan query finds nothing
ExistingPlansMut(i) == {}

\* existing = db.query(RemediationPlan).filter(issue_id == issue_id).first()
ExistingPlans(i) == PlansOfIssue(i)

\* requests suspended at an await and background tasks that have not returned
jobsInFlight ==
    BagCardinality(genReqs) + BagCardinality(genTasks)
        + BagCardinality(apprTasks) + BagCardinality(implTasks)

(***************************************************************************)
(* api/v1/remediation.py: single generation                                *)
(***************************************************************************)
\* generate_remediation up to the await of the text generation
generate_remediation_begin(u, i) ==
    /\ IF i \notin DOMAIN issues
       THEN /\ ev' = Event("generate", u, i, "404")
            /\ UNCHANGED genReqs
       ELSE IF ~OwnedPdf(issues[i].pdf_id, u)
       THEN /\ ev' = Event("generate", u, i, "403")
            /\ UNCHANGED genReqs
       ELSE IF ExistingPlans(i) # {}
       THEN /\ ev' = Event("generate", u, i, "existing")
            /\ UNCHANGED genReqs
       ELSE /\ jobsInFlight < MaxJobs
            /\ genReqs' = Put(genReqs, [user_id |-> u, issue_id |-> i])
            /\ ev' = Event("generate", u, i, "awaiting")
    /\ UNCHANGED <<upReqs, dbVars, files, anTasks, genTasks, apprTasks, implTasks>>

\* generate_remediation from the return of the text generation to the response
generate_remediation_finish(r) ==
    /\ BagIn(r, genReqs)
    /\ genReqs' = Take(genReqs, r)
    /\ LET i == r.issue_id
           u == r.user_id
       IN  \E suggestion \in SuggestionOutcomes, commit \in CommitOutcomes :
              IF suggestion = "raise"
              THEN /\ ev' = Event("generate", u, i, "generation_raised")
                   /\ UNCHANGED plans
              ELSE IF InsertPlanCommits(i, commit)
              THEN /\ plans' = plans @@ (FreshPlanId(i) :> NewPlanRow(i, suggestion))
                   /\ ev' = Event("generate", u, i, "201")
              ELSE /\ ev' = Event("generate", u, i, "commit_raised")
                   /\ UNCHANGED plans
    /\ UNCHANGED <<upReqs, pdfs, issues, reports, nextId, files, anTasks, genTasks, apprTasks, implTasks>>

(***************************************************************************)
(* api/v1/remediation.py: the loops of the bulk background tasks           *)
(***************************************************************************)
\* the loop moves to its next item, or ends after the last one
Advance(task) ==
    LET n == task.idx + 1
    IN  [task EXCEPT !.idx = n, !.pc = IF n > Len(task.ids) THEN "done" ELSE "loop"]

\* failed += 1; continue
ItemFailed(task) == Advance([task EXCEPT !.failed = @ + 1])

\* successful += 1
ItemSucceeded(task) == Advance([task EXCEPT !.successful = @ + 1])

\* except Exception: failed += 1.  A commit that raised leaves the task's session
\* unusable (poisons); an exception of the text generation does not.
ItemRaised(task, poisons) ==
    Advance([task EXCEPT !.failed = @ + 1, !.broken = @ \/ poisons])

\* the local state of a bulk background task when it starts
NewBulkTask(ids, u, approved) ==
    [ ids |-> ids, user_id |-> u, approved |-> approved, idx |-> 1,
      successful |-> 0, failed |-> 0, broken |-> FALSE,
      pc |-> IF ids = <<>> THEN "done" ELSE "loop" ]

(***************************************************************************)
(* api/v1/remediation.py: bulk generation                                  *)
(***************************************************************************)
NoFilter == [pdf_ids |-> {}, issue_types |-> {}, severities |-> {}]

\* the filters of a BulkRemediationRequest; an empty list does not filter
MatchesFilter(i, f) ==
    /\ (f.pdf_ids = {} \/ issues[i].pdf_id \in f.pdf_ids)
    /\ (f.issue_types = {} \/ issues[i].issue_type \in f.issue_types)
    /\ (f.severities = {} \/ issues[i].severity \in f.severities)

\* the issues generate_bulk_remediations selects
IssuesToGenerate(u, f) ==
    { i \in DOMAIN issues :
        /\ OwnedPdf(issues[i].pdf_id, u)
        /\ MatchesFilter(i, f)
        /\ PlansOfIssue(i) = {} }

\* POST /bulk/generate
generate_bulk_remediations(u, f) ==
    /\ LET selected == IssuesToGenerate(u, f) IN
       IF selected = {}
       THEN /\ ev' = Event("bulk_generate", u, 0, "none")
            /\ UNCHANGED genTasks
       ELSE /\ jobsInFlight < MaxJobs
            /\ \E ids \in Orders(selected) :
                  genTasks' = Put(genTasks, NewBulkTask(ids, u, FALSE))
            /\ ev' = Event("bulk_generate", u, Cardinality(selected), "202")
    /\ UNCHANGED <<upReqs, dbVars, files, anTasks, genReqs, apprTasks, implTasks>>

\* one pass of the loop of process_bulk_remediations up to the await of the text
\* generation, or to the continue that ends the pass
process_bulk_remediations_check(task) ==
    /\ BagIn(task, genTasks)
    /\ task.pc = "loop"
    /\ LET i == task.ids[task.idx] IN
       IF task.broken
       THEN /\ genTasks' = Put(Take(genTasks, task), ItemRaised(task, FALSE))
            /\ ev' = Event("bulk_generate_item", task.user_id, i, "session_raised")
       ELSE IF i \notin DOMAIN issues
       THEN /\ genTasks' = Put(Take(genTasks, task), ItemFailed(task))
            /\ ev' = Event("bulk_generate_item", task.user_id, i, "issue_missing")
       ELSE IF ~OwnedPdf(issues[i].pdf_id, task.user_id)
       THEN /\ genTasks' = Put(Take(genTasks, task), ItemFailed(task))
            /\ ev' = Event("bulk_generate_item", task.user_id, i, "not_owned")
       ELSE IF PlansOfIssue(i) # {}
       THEN /\ genTasks' = Put(Take(genTasks, task), ItemSucceeded(task))
            /\ ev' = Event("bulk_generate_item", task.user_id, i, "existing")
       ELSE /\ genTasks' = Put(Take(genTasks, task), [task EXCEPT !.pc = "awaiting"])
            /\ ev' = Event("bulk_generate_item", task.user_id, i, "awaiting")
    /\ UNCHANGED <<upReqs, dbVars, files, anTasks, genReqs, apprTasks, implTasks>>

\* the rest of the pass, from the return of the text generation
process_bulk_remediations_insert(task) ==
    /\ BagIn(task, genTasks)
    /\ task.pc = "awaiting"
    /\ LET i == task.ids[task.idx] IN
       \E suggestion \in SuggestionOutcomes, commit \in CommitOutcomes :
          IF suggestion = "raise"
          THEN /\ genTasks' = Put(Take(genTasks, task), ItemRaised(task, FALSE))
               /\ ev' = Event("bulk_generate_item", task.user_id, i, "generation_raised")
               /\ UNCHANGED plans
          ELSE IF InsertPlanCommits(i, commit)
          THEN /\ plans' = plans @@ (FreshPlanId(i) :> NewPlanRow(i, suggestion))
               /\ genTasks' = Put(Take(genTasks, task), ItemSucceeded(task))
               /\ ev' = Event("bulk_generate_item", task.user_id, i, "created")
          ELSE /\ genTasks' = Put(Take(genTasks, task), ItemRaised(task, TRUE))
               /\ ev' = Event("bulk_generate_item", task.user_id, i, "commit_raised")
               /\ UNCHANGED plans
    /\ UNCHANGED <<upReqs, pdfs, issues, reports, nextId, files, anTasks, genReqs, apprTasks, implTasks>>

\* process_bulk_remediations after its loop: db.close(), the log line, the return
process_bulk_remediations_return(task) ==
    /\ BagIn(task, genTasks)
    /\ task.pc = "done"
    /\ genTasks' = Take(genTasks, task)
    /\ ev' = Event("bulk_generate_return", task.user_id, Len(task.ids), "-")
    /\ UNCHANGED <<upReqs, dbVars, files, anTasks, genReqs, apprTasks, implTasks>>

(***************************************************************************)
(* api/v1/remediation.py: bulk approval                                    *)
(***************************************************************************)
\* the document a plan belongs to, through its issue
PdfOfPlan(p) == issues[plans[p].issue_id].pdf_id

\* RemediationPlan joined with its issue and its document, owned by u
OwnedPlan(p, u) ==
    /\ p \in DOMAIN plans
    /\ plans[p].issue_id \in DOMAIN issues
    /\ OwnedPdf(PdfOfPlan(p), u)

\* mutant of PlansToApprove: the query filters on the identifiers alone
PlansToApproveMut(u, rids) == rids \cap DOMAIN plans

\* the plans approve_bulk_remediations hands to its background task
PlansToApprove(u, rids) == { p \in rids : OwnedPlan(p, u) }

\* PUT /bulk/approve
approve_bulk_remediations(u, rids, approved) ==
    /\ LET selected == PlansToApprove(u, rids) IN
       IF selected = {}
       THEN /\ ev' = Event("bulk_approve", u, 0, "404")
            /\ UNCHANGED apprTasks
       ELSE /\ jobsInFlight < MaxJobs
            /\ \E ids \in Orders(selected) :
                  apprTasks' = Put(apprTasks, NewBulkTask(ids, u, approved))
            /\ ev' = Event("bulk_approve", u, Cardinality(selected), "200")
    /\ UNCHANGED <<upReqs, dbVars, files, anTasks, genReqs, genTasks, implTasks>>

\* the fields process_bulk_approvals writes to a plan
BulkApproved(plan, approved) ==
    [plan EXCEPT !.user_approved = approved,
                 !.implementation_status = IF approved THEN "pending_implementation" ELSE "rejected"]

\* one pass of the loop of process_bulk_approvals
process_bulk_approvals_item(task) ==
    /\ BagIn(task, apprTasks)
    /\ task.pc = "loop"
    /\ LET p == task.ids[task.idx] IN
       IF task.broken
       THEN /\ apprTasks' = Put(Take(apprTasks, task), ItemRaised(task, FALSE))
            /\ ev' = Event("bulk_approve_item", task.user_id, p, "session_raised")
            /\ UNCHANGED plans
       ELSE IF p \notin DOMAIN plans
       THEN /\ apprTasks' = Put(Take(apprTasks, task), ItemFailed(task))
            /\ ev' = Event("bulk_approve_item", task.user_id, p, "plan_missing")
            /\ UNCHANGED plans
       ELSE \E commit \in CommitOutcomes :
            IF commit = "ok"
            THEN /\ plans' = [plans EXCEPT ![p] = BulkApproved(@, task.approved)]
                 /\ apprTasks' = Put(Take(apprTasks, task), ItemSucceeded(task))
                 /\ ev' = Event("bulk_approve_item", task.user_id, p, "updated")
            ELSE /\ apprTasks' = Put(Take(apprTasks, task), ItemRaised(task, TRUE))
                 /\ ev' = Event("bulk_approve_item", task.user_id, p, "commit_raised")
                 /\ UNCHANGED plans
    /\ UNCHANGED <<upReqs, pdfs, issues, reports, nextId, files, anTasks, genReqs, genTasks, implTasks>>

\* process_bulk_approvals after its loop: db.close(), the log line, the return
process_bulk_approvals_return(task) ==
    /\ BagIn(task, apprTasks)
    /\ task.pc = "done"
    /\ apprTasks' = Take(apprTasks, task)
    /\ ev' = Event("bulk_approve_return", task.user_id, Len(task.ids), "-")
    /\ UNCHANGED <<upReqs, dbVars, files, anTasks, genReqs, genTasks, implTasks>>

(***************************************************************************)
(* api/v1/pdfs.py: deletion, with the cascades of the relationships        *)
(***************************************************************************)
\* mutant of IssuesOfPdf: the relationship PDFDocument.issues has no delete cascade
IssuesOfPdfMut(d) == {}

\* pdf.issues, the children db.delete(pdf) removes with the document
IssuesOfPdf(d) == { i \in DOMAIN issues : issues[i].pdf_id = d }

\* DELETE /{pdf_id}: the stored file is unlinked before the record is deleted
delete_pdf(u, d) ==
    /\ IF ~OwnedPdf(d, u)
       THEN /\ ev' = Event("delete_pdf", u, d, "404")
            /\ UNCHANGED <<pdfs, issues, reports, plans, files>>
       ELSE /\ files' = Without(files, {pdfs[d].file_path})
            /\ \E commit \in CommitOutcomes :
                 IF commit = "ok"
                 THEN /\ pdfs' = Without(pdfs, {d})
                      /\ issues' = Without(issues, IssuesOfPdf(d))
                      /\ reports' = Without(reports, { r \in DOMAIN reports : reports[r].pdf_id = d })
                      /\ plans' = Without(plans, { p \in DOMAIN plans : plans[p].issue_id \in IssuesOfPdf(d) })
                      /\ ev' = Event("delete_pdf", u, d, "204")
                 ELSE /\ ev' = Event("delete_pdf", u, d, "500")
                      /\ UNCHANGED <<pdfs, issues, reports, plans>>
    /\ UNCHANGED <<upReqs, nextId, anTasks, genReqs, genTasks, apprTasks, implTasks>>

(***************************************************************************)
(* Specifications of plan generation and approval.  User u1 owns one       *)
(* analysed document with two issues; u2 owns nothing.                     *)
(*   SpecGen:  single and bulk generation racing each other and deletion.  *)
(*   SpecBulk: the bulk generation and bulk approval loops and deletion,   *)
(*             requested by the owner.                                     *)
(***************************************************************************)
AnalysedPdf(u, path) ==
    [user_id |-> u, processing_status |-> "completed", file_path |-> path]

IssueRow(d, type, sev) == [pdf_id |-> d, issue_type |-> type, severity |-> sev]

GenPdfIds == {1}

GenIssueIds == {11, 12}

GenFilters == { NoFilter, [NoFilter EXCEPT !.severities = {"high"}] }

\* what is stored for the document of InitGen: a file for which the analysis
\* reports a page without text and an image without alternative text
TwoIssueFile ==
    [ issues |-> <<IssueDraft("missing_text", "critical"), IssueDraft("missing_alt_text", "high")>>,
      metadata |-> [is_tagged |-> FALSE, title |-> ""] ]

InitGen ==
    /\ pdfs = (1 :> AnalysedPdf("u1", UploadPath(1)))
    /\ issues = NewIssueRows(1, TwoIssueFile.issues, 11)
    /\ reports = (14 :> NewReportRow(1, AnalysisResult(TwoIssueFile.issues, TwoIssueFile.metadata)))
    /\ plans = <<>>
    /\ nextId = 20
    /\ files = (UploadPath(1) :> TwoIssueFile)
    /\ anTasks = <<>>
    /\ genReqs = EmptyBag
    /\ genTasks = EmptyBag
    /\ apprTasks = EmptyBag
    /\ implTasks = EmptyBag
    /\ upReqs = <<>>
    /\ ev = Event("init", "-", 0, "-")

NextGen ==
    \/ \E u \in Users, i \in GenIssueIds : generate_remediation_begin(u, i)
    \/ \E r \in BagToSet(genReqs) : generate_remediation_finish(r)
    \/ \E u \in Users, f \in GenFilters : generate_bulk_remediations(u, f)
    \/ \E task \in BagToSet(genTasks) : process_bulk_remediations_check(task)
    \/ \E task \in BagToSet(genTasks) : process_bulk_remediations_insert(task)
    \/ \E task \in BagToSet(genTasks) : process_bulk_remediations_return(task)
    \/ \E u \in Users, d \in GenPdfIds : delete_pdf(u, d)

SpecGen == InitGen /\ [][NextGen]_vars

\* the users who own a document; the requests of a user who owns nothing start no
\* task and are left to SpecGen
Owners == {"u1"}

NextBulk ==
    \/ \E u \in Owners, f \in GenFilters : generate_bulk_remediations(u, f)
    \/ \E task \in BagToSet(genTasks) : process_bulk_remediations_check(task)
    \/ \E task \in BagToSet(genTasks) : process_bulk_remediations_insert(task)
    \/ \E task \in BagToSet(genTasks) : process_bulk_remediations_return(task)
    \/ \E u \in Owners, rids \in (SUBSET (DOMAIN plans)) \ {{}}, approved \in BOOLEAN :
          approve_bulk_remediations(u, rids, approved)
    \/ \E task \in BagToSet(apprTasks) : process_bulk_approvals_item(task)
    \/ \E task \in BagToSet(apprTasks) : process_bulk_approvals_return(task)
    \/ \E u \in Owners, d \in GenPdfIds : delete_pdf(u, d)

SpecBulk == InitGen /\ [][NextBulk]_vars

(***************************************************************************)
(* services/pdf_fixer.py: the annotation applier                           *)
(***************************************************************************)
\* the keys of PDFFixer.supported_fixes
supported_fixes ==
    { "missing_alt_text", "table_headers", "reading_order", "missing_title",
      "language_specification", "color_contrast", "font_size" }

\* parent / "fixed" / f"{stem}_fixed.pdf"
generate_fixed_file_path(path) == [path EXCEPT !.fixed = @ + 1]

\* PDFFixer._fix_missing_alt_text: whether it returns success.  The method calls
\* page.get_images() on every page inside one try block, so a page on which
\* that call raises makes it return success False.  A file that is given by its
\* issue list is one on every page of which the calls of the fix methods return.
fix_missing_alt_text(file) ==
    IF "pages" \in DOMAIN file
    THEN \A k \in DOMAIN file.pages : file.pages[k].raises # "get_images"
    ELSE TRUE

\* implement_remediation reports success when a fix method exists for the issue
\* type, the file can be copied to its backup, and the fix method returns
\* success; else it returns the failure, and no fixed file is written
implement_remediation(path, rem) ==
    /\ rem.issue_type \in supported_fixes
    /\ path \in DOMAIN files
    /\ rem.issue_type = "missing_alt_text" => fix_missing_alt_text(files[path])

\* the remediations of a group that implement_remediation applies
AppliedFixes(path, rems) ==
    { k \in 1..Len(rems) : implement_remediation(path, rems[k]) }

\* PDFFixer.implement_bulk_fixes: the result dictionary.  _create_backup raises
\* when the file cannot be copied, and the except branch reports every fix failed
implement_bulk_fixes(path, rems) ==
    IF path \notin DOMAIN files
    THEN [ success |-> FALSE, successful_fixes |-> 0, failed_fixes |-> Len(rems),
           fixed_file_path |-> NoPath ]
    ELSE LET applied == Cardinality(AppliedFixes(path, rems))
         IN  [ success |-> applied # 0,
               successful_fixes |-> applied,
               failed_fixes |-> Len(rems) - applied,
               fixed_file_path |-> IF applied # 0 THEN generate_fixed_file_path(path)
                                                  ELSE NoPath ]

\* what extract_metadata can read from a copy of the file that a fix method has
\* changed.  _fix_missing_title and _fix_language_specification call
\* doc.set_metadata with a dictionary that gives the subject, the creator and the
\* producer, and a title or none.  Depending on the PyMuPDF release,
\* set_metadata writes the given keys into the document information and keeps
\* the others, or replaces the information, which then has no title unless one
\* was given.  is_tagged is a test for the text "/MarkInfo" anywhere in the
\* information: it stays as it was when the text is in a value that is kept, and
\* becomes false when the text was in a value that is rewritten or dropped; none
\* of the values written holds the text.  The other fix methods add annotations
\* and leave the information alone.
FixedMetadatas(metadata, issue_type) ==
    IF issue_type = "missing_title"
    THEN { [is_tagged |-> t, title |-> "Accessibility Improved Document"] :
             t \in {metadata.is_tagged, FALSE} }
    ELSE IF issue_type = "language_specification"
    THEN { [is_tagged |-> t, title |-> metadata.title] : t \in {metadata.is_tagged, FALSE} }
            \cup { [is_tagged |-> FALSE, title |-> ""] }
    ELSE { metadata }

\* the files that can be on disk after implement_bulk_fixes.  Every successful
\* implement_remediation opens the original file, applies its one fix and saves
\* the result to the same fixed path, so the fixed file is the original with the
\* last successful fix of the group.  _save_fixed_pdf saves the changed document
\* only if it is truthy, and a document without pages is not: the original file
\* is then copied to the fixed path as it is.
FilesAfterFixes(path, rems, result) ==
    IF result.success
    THEN LET applied == AppliedFixes(path, rems)
             last == CHOOSE k \in applied : \A j \in applied : j <= k
             no_pages == IF "pages" \in DOMAIN files[path]
                         THEN files[path].pages = <<>> ELSE FALSE
             saved == IF no_pages THEN { files[path].metadata }
                      ELSE FixedMetadatas(files[path].metadata, rems[last].issue_type)
         IN  { [ f \in DOMAIN files \cup {result.fixed_file_path} |->
                   IF f = result.fixed_file_path
                   THEN [files[path] EXCEPT !.metadata = m] ELSE files[f] ] :
                 m \in saved }
    ELSE { files }

(***************************************************************************)
(* api/v1/remediation.py: bulk implementation                              *)
(***************************************************************************)
\* the plans implement_bulk_remediations selects
PlansToImplement(u, f) ==
    { p \in DOMAIN plans :
        /\ OwnedPlan(p, u)
        /\ plans[p].user_approved
        /\ plans[p].implementation_status = "pending_implementation"
        /\ MatchesFilter(plans[p].issue_id, f) }

\* no plan object is referenced by the local variable "remediation"
NoHeld == [id |-> 0, implementation_status |-> "-"]

\* the local state of process_bulk_implementations when it starts
NewImplTask(ids, u) ==
    [ ids |-> ids, user_id |-> u, pc |-> "grouping", groups |-> <<>>, g |-> 1,
      successful |-> 0, failed |-> 0, broken |-> FALSE, held |-> NoHeld ]

\* POST /bulk/implement
implement_bulk_remediations(u, f) ==
    /\ LET selected == PlansToImplement(u, f) IN
       IF selected = {}
       THEN /\ ev' = Event("bulk_implement", u, 0, "none")
            /\ UNCHANGED implTasks
       ELSE /\ jobsInFlight < MaxJobs
            /\ \E ids \in Orders(selected) :
                  implTasks' = Put(implTasks, NewImplTask(ids, u))
            /\ ev' = Event("bulk_implement", u, Cardinality(selected), "202")
    /\ UNCHANGED <<upReqs, dbVars, files, anTasks, genReqs, genTasks, apprTasks>>

RECURSIVE GroupByPdf(_, _)
\* the first loop of process_bulk_implementations: pdf_remediations, in the order
\* in which the documents are first met, and the count of the plans it cannot place
GroupByPdf(ids, acc) ==
    IF ids = <<>> THEN acc
    ELSE LET rid == Head(ids) IN
         IF rid \notin DOMAIN plans \/ plans[rid].issue_id \notin DOMAIN issues
         THEN GroupByPdf(Tail(ids), [acc EXCEPT !.failed = @ + 1])
         ELSE LET issue == issues[plans[rid].issue_id]
                  rem == [remediation_id |-> rid, issue_type |-> issue.issue_type]
                  at == { k \in 1..Len(acc.groups) : acc.groups[k].pdf_id = issue.pdf_id }
              IN  IF at = {}
                  THEN GroupByPdf(Tail(ids),
                          [acc EXCEPT !.groups = Append(@, [pdf_id |-> issue.pdf_id, rems |-> <<rem>>])])
                  ELSE GroupByPdf(Tail(ids),
                          [acc EXCEPT !.groups[CHOOSE k \in at : TRUE].rems = Append(@, rem)])

\* the plan object the local variable "remediation" refers to when the grouping
\* loop has ended: the result of its last query, with the status it was loaded
\* with.  The Session keeps an unchanged object only as long as the program
\* refers to it, so the objects of the earlier passes are gone.
LastLoaded(ids) ==
    IF ids = <<>> THEN NoHeld
    ELSE IF ids[Len(ids)] \notin DOMAIN plans THEN NoHeld
    ELSE [ id |-> ids[Len(ids)],
           implementation_status |-> plans[ids[Len(ids)]].implementation_status ]

\* process_bulk_implementations from its start to the end of the grouping loop
process_bulk_implementations_group(task) ==
    /\ BagIn(task, implTasks)
    /\ task.pc = "grouping"
    /\ LET acc == GroupByPdf(task.ids, [groups |-> <<>>, failed |-> 0]) IN
       /\ implTasks' = Put(Take(implTasks, task),
                         [task EXCEPT !.groups = acc.groups, !.failed = acc.failed,
                                      !.held = LastLoaded(task.ids),
                                      !.pc = IF acc.groups = <<>> THEN "done" ELSE "groups"])
       /\ ev' = Event("bulk_implement_grouped", task.user_id, Len(acc.groups), "-")
    /\ UNCHANGED <<upReqs, dbVars, files, anTasks, genReqs, genTasks, apprTasks>>

\* the group the second loop is at
CurrentGroup(task) == task.groups[task.g]

\* the second loop moves to its next group, or ends after the last one
NextGroup(task) ==
    [task EXCEPT !.g = @ + 1, !.pc = IF task.g = Len(task.groups) THEN "done" ELSE "groups"]

\* mutant of CountGroupFailed: a failed group counts as one failure
CountGroupFailedMut(task) == [task EXCEPT !.failed = @ + 1]

\* failed += len(remediations)
CountGroupFailed(task) == [task EXCEPT !.failed = @ + Len(CurrentGroup(task).rems)]

\* successful += result["successful_fixes"]; failed += result["failed_fixes"]
CountFixes(task, result) ==
    [task EXCEPT !.successful = @ + result.successful_fixes,
                 !.failed = @ + result.failed_fixes]

\* mutant of Implemented: the status update is left out
ImplementedMut(plan) == plan

\* remediation.implementation_status = "implemented"
Implemented(plan) == [plan EXCEPT !.implementation_status = "implemented"]

\* the implementation_status of the object the query of the status loop returns
\* for the k-th plan of the current group.  For a row whose object the Session
\* still holds, the query returns that object with the values it was loaded
\* with; this is the case of the first query of the first status loop when it
\* asks for the plan the grouping loop loaded last.  Every other query loads the
\* row as it is.
QueriedStatus(task, k) ==
    LET p == CurrentGroup(task).rems[k].remediation_id IN
    IF k = 1 /\ task.held.id = p
    THEN task.held.implementation_status
    ELSE plans[p].implementation_status

\* the plans after the status updates of a group and their commit: a plan that no
\* longer exists is skipped, and the UPDATE of a plan carries implementation_status
\* only if the assignment changed the value of the object
PlansImplemented(task) ==
    LET rems == CurrentGroup(task).rems IN
    [ p \in DOMAIN plans |->
        IF \E k \in 1..Len(rems) :
              rems[k].remediation_id = p /\ QueriedStatus(task, k) # "implemented"
        THEN Implemented(plans[p]) ELSE plans[p] ]

\* if result["fixed_file_path"]: pdf.file_path = result["fixed_file_path"]
PdfFixed(d, result) ==
    IF result.fixed_file_path # NoPath
    THEN [pdfs EXCEPT ![d].file_path = result.fixed_file_path]
    ELSE pdfs

\* how one pass of the second loop ends for the current group
GroupResult(task, commit) ==
    LET d == CurrentGroup(task).pdf_id IN
    IF task.broken THEN "session_raised"
    ELSE IF ~OwnedPdf(d, task.user_id) THEN "pdf_missing"
    ELSE IF ~implement_bulk_fixes(pdfs[d].file_path, CurrentGroup(task).rems).success
    THEN "applier_failed"
    ELSE IF commit = "ok" THEN "implemented" ELSE "commit_raised"

\* the task's local state after the pass; the first assignment of the status
\* loop to the local variable "remediation" releases the object it held
TaskAfterGroup(task, commit) ==
    LET d == CurrentGroup(task).pdf_id
        how == GroupResult(task, commit)
    IN  IF how \in {"session_raised", "pdf_missing", "applier_failed"}
        THEN NextGroup(CountGroupFailed(task))
        ELSE LET counted == CountFixes(task,
                                implement_bulk_fixes(pdfs[d].file_path, CurrentGroup(task).rems))
                 released == [counted EXCEPT !.held = NoHeld]
             IN  IF how = "implemented"
                 THEN NextGroup(released)
                 ELSE NextGroup(CountGroupFailed([released EXCEPT !.broken = TRUE]))

\* one pass of the second loop of process_bulk_implementations: one document group
process_bulk_implementations_pdf(task, commit) ==
    /\ BagIn(task, implTasks)
    /\ task.pc = "groups"
    /\ LET d == CurrentGroup(task).pdf_id
           how == GroupResult(task, commit)
       IN  /\ implTasks' = Put(Take(implTasks, task), TaskAfterGroup(task, commit))
           /\ ev' = Event("bulk_implement_pdf", task.user_id, d, how)
           /\ IF how \in {"session_raised", "pdf_missing"}
              THEN UNCHANGED <<plans, pdfs, files>>
              ELSE LET result == implement_bulk_fixes(pdfs[d].file_path, CurrentGroup(task).rems) IN
                   /\ files' \in FilesAfterFixes(pdfs[d].file_path, CurrentGroup(task).rems, result)
                   /\ IF how = "implemented"
                      THEN /\ plans' = PlansImplemented(task)
                           /\ pdfs' = PdfFixed(d, result)
                      ELSE UNCHANGED <<plans, pdfs>>
    /\ UNCHANGED <<upReqs, issues, reports, nextId, anTasks, genReqs, genTasks, apprTasks>>

\* process_bulk_implementations after its loops: db.close(), the log line, the return
process_bulk_implementations_return(task) ==
    /\ BagIn(task, implTasks)
    /\ task.pc = "done"
    /\ implTasks' = Take(implTasks, task)
    /\ ev' = Event("bulk_implement_return", task.user_id, Len(task.ids), "-")
    /\ UNCHANGED <<upReqs, dbVars, files, anTasks, genReqs, genTasks, apprTasks>>

(***************************************************************************)
(* Specification of bulk implementation.  User u1 has uploaded and         *)
(* analysed two documents, and has generated and approved a plan for every *)
(* missing_alt_text and table_missing_headers issue.  The first document   *)
(* is a page with text, an image and a table without headers.  The second  *)
(* is a page with text and an image, alone or followed by a page on which  *)
(* get_images raises, or its file has been removed (by a delete request    *)
(* whose commit raised).  Bulk implementation requests and their           *)
(* background tasks interleave freely with each other and with requests to *)
(* delete the first document.                                              *)
(***************************************************************************)
ApprovedPlan(i) == BulkApproved(NewPlanRow(i, "suggestion"), TRUE)

ImplDeletedPdfIds == {1}

ImplFilters ==
    { NoFilter, [NoFilter EXCEPT !.pdf_ids = {1}],
      [NoFilter EXCEPT !.issue_types = {"table_missing_headers"}] }

\* what is stored for a document for which the analysis reports one image
\* without alternative text and nothing else
OneImageFile ==
    [ issues |-> <<IssueDraft("missing_alt_text", "high")>>,
      metadata |-> [is_tagged |-> FALSE, title |-> ""] ]

\* a page with ten or more characters of text, one image and the given tables
ImagePage(tables, raises) ==
    [text |-> 2, tables |-> tables, images |-> 1, blocks |-> TRUE, raises |-> raises]

\* the file of document 1: its table has two rows and an empty first row
ImplFile1 ==
    [ pages |-> <<ImagePage(<< << <<"", "">>, <<"x", "x">> >> >>, "none")>>,
      metadata |-> [is_tagged |-> FALSE, title |-> ""] ]

\* the files of document 2; the analysis reports the same issues for both
ImplFiles2 ==
    { [ pages |-> ps, metadata |-> [is_tagged |-> FALSE, title |-> ""] ] :
        ps \in { <<ImagePage(<<>>, "none")>>,
                 <<ImagePage(<<>>, "none"), ImagePage(<<>>, "get_images")>> } }

\* the rows are those the two analysis runs stored: issues 11 (table_missing_headers),
\* 12 (missing_alt_text) and 13 (potential_contrast_issue) and report 14 for
\* document 1, issues 21 (missing_alt_text) and 22 (potential_contrast_issue) and
\* report 23 for document 2
InitImpl ==
    /\ pdfs = (1 :> AnalysedPdf("u1", UploadPath(1))) @@ (2 :> AnalysedPdf("u1", UploadPath(2)))
    /\ \E stored2 \in { (UploadPath(2) :> f) : f \in ImplFiles2 } \cup { <<>> } :
          files = (UploadPath(1) :> ImplFile1) @@ stored2
    /\ LET file2 == CHOOSE f \in ImplFiles2 : Len(f.pages) = 1
           res1 == AnalysisResult(analyze_content(ImplFile1.pages, 1)
                                     \o analyze_structure(ImplFile1.pages, 1), ImplFile1.metadata)
           res2 == AnalysisResult(analyze_content(file2.pages, 1)
                                     \o analyze_structure(file2.pages, 1), file2.metadata)
       IN  /\ issues = NewIssueRows(1, res1.issues, 11) @@ NewIssueRows(2, res2.issues, 21)
           /\ reports = (14 :> NewReportRow(1, res1)) @@ (23 :> NewReportRow(2, res2))
    /\ plans = (110 :> ApprovedPlan(11)) @@ (120 :> ApprovedPlan(12)) @@ (210 :> ApprovedPlan(21))
    /\ nextId = 30
    /\ anTasks = <<>>
    /\ genReqs = EmptyBag
    /\ genTasks = EmptyBag
    /\ apprTasks = EmptyBag
    /\ implTasks = EmptyBag
    /\ upReqs = <<>>
    /\ ev = Event("init", "-", 0, "-")

NextImpl ==
    \/ \E u \in Users, f \in ImplFilters : implement_bulk_remediations(u, f)
    \/ \E task \in BagToSet(implTasks) : process_bulk_implementations_group(task)
    \/ \E task \in BagToSet(implTasks), commit \in CommitOutcomes :
          process_bulk_implementations_pdf(task, commit)
    \/ \E task \in BagToSet(implTasks) : process_bulk_implementations_return(task)
    \/ \E u \in Users, d \in ImplDeletedPdfIds : delete_pdf(u, d)

SpecImpl == InitImpl /\ [][NextImpl]_vars

(***************************************************************************)
(* Claims on the analysis workflow, checked under SpecAnalysis.            *)
(***************************************************************************)
\* the analysis runs of document d that were accepted and have not ended
RunsInFlight(d) ==
    { t \in DOMAIN anTasks : anTasks[t].pdf_id = d /\ anTasks[t].pc \in {"queued", "analyzing"} }

\* C2: for every document, at most one accepted analysis run is in flight at a
\* time, whatever the interleaving of start_analysis and analyze_pdf_task.
C2_OneRunInFlight ==
    \A d \in DOMAIN pdfs : Cardinality(RunsInFlight(d)) <= 1

\* C3: a start_analysis call on a document whose persisted status is "analyzing"
\* is answered with an error (400 for the owner), enqueues no task and leaves
\* the documents, the issues and the reports unchanged.
C3_AnalyzingRejected ==
    [][ ( /\ ev'.op = "start_analysis"
          /\ ev'.target \in DOMAIN pdfs
          /\ pdfs[ev'.target].processing_status = "analyzing" )
        => ( /\ ev'.result \in {"400", "404"}
             /\ (pdfs[ev'.target].user_id = ev'.who => ev'.result = "400")
             /\ anTasks' = anTasks
             /\ pdfs' = pdfs
             /\ issues' = issues
             /\ reports' = reports ) ]_vars

\* C3 witness: the owner's trigger on an analyzing document was just rejected
C3_Witness ==
    /\ ev.op = "start_analysis"
    /\ ev.result = "400"
    /\ pdfs[ev.target].processing_status = "analyzing"
    /\ RunsInFlight(ev.target) # {}

\* C4: the issues and the report of a run become visible in one step, together
\* with the status "completed": whenever the issues or the reports change, or a
\* document turns "completed", exactly one report is added for one document,
\* exactly total_issues issues are added for that document, nothing else in
\* the two tables changes, and that document is "completed" afterwards.
C4_RunPersistedAsUnit ==
    [][ ( \/ issues' # issues
          \/ reports' # reports
          \/ \E d \in DOMAIN pdfs :
                /\ pdfs[d].processing_status # "completed"
                /\ pdfs'[d].processing_status = "completed" )
        => \E d \in DOMAIN pdfs, rid \in (DOMAIN reports') \ (DOMAIN reports) :
              LET added == (DOMAIN issues') \ (DOMAIN issues) IN
              /\ DOMAIN reports' = (DOMAIN reports) \cup {rid}
              /\ \A r \in DOMAIN reports : reports'[r] = reports[r]
              /\ reports'[rid].pdf_id = d
              /\ DOMAIN issues \subseteq DOMAIN issues'
              /\ \A i \in DOMAIN issues : issues'[i] = issues[i]
              /\ \A i \in added : issues'[i].pdf_id = d
              /\ Cardinality(added) = reports'[rid].total_issues
              /\ pdfs'[d].processing_status = "completed"
              /\ \A o \in (DOMAIN pdfs) \ {d} : pdfs'[o] = pdfs[o] ]_vars

\* C4 witness: a run with two issues has just been persisted
C4_Witness ==
    /\ ev.op = "analyze_run"
    /\ ev.result = "completed"
    /\ \E r \in DOMAIN reports :
          /\ reports[r].pdf_id = ev.target
          /\ reports[r].total_issues = 2
          /\ Cardinality({i \in DOMAIN issues : issues[i].pdf_id = ev.target}) >= 2

\* C5: a run that fails after it has started leaves its document "failed" and
\* persists none of its issue or report records.
C5_FailedRunEndsFailed ==
    [][ ( /\ ev'.op = "analyze_run"
          /\ ev'.result # "completed" )
        => ( /\ pdfs'[ev'.target].processing_status = "failed"
             /\ issues' = issues
             /\ reports' = reports ) ]_vars

(***************************************************************************)
(* Claims on plan generation, checked under SpecGen.                       *)
(***************************************************************************)
\* C1: in every reachable state, however single generation requests and bulk
\* generation tasks interleave (two requests for one issue may both pass the
\* existing-plan check before either inserts), an issue has at most one plan.
C1_AtMostOnePlanPerIssue ==
    \A p \in DOMAIN plans, q \in DOMAIN plans :
        plans[p].issue_id = plans[q].issue_id => p = q

\* C1 witness: a request that had passed the existing-plan check has just had its
\* INSERT refused while another job's plan for the same issue is stored, and a
\* bulk generation task is running at the same time.
C1_Witness ==
    /\ ev.op = "generate"
    /\ ev.result = "commit_raised"
    /\ PlansOfIssue(ev.target) # {}
    /\ genTasks # EmptyBag

(***************************************************************************)
(* Claims on the bulk loops, checked under SpecBulk.                       *)
(***************************************************************************)
\* the bulk generation and bulk approval tasks that have not returned
LoopTasks == BagToSet(genTasks) \cup BagToSet(apprTasks)

\* the counting of the loops: after k passes successful + failed = k, no pass
\* ends the loop early, and at termination successful + failed is the number of
\* items handed to the loop
BulkAccounting ==
    \A t \in LoopTasks :
        /\ t.idx \in 1 .. Len(t.ids) + 1
        /\ t.successful + t.failed = t.idx - 1
        /\ (t.pc = "done") = (t.idx = Len(t.ids) + 1)
        /\ t.pc = "done" => t.successful + t.failed = Len(t.ids)

\* a pass of a loop processes its item whatever happened to the items before
\* it: a generation pass on an issue that exists and is owned reaches the test
\* for an existing plan, and then counts the plan or goes on to the text
\* generation; an approval pass on a plan that exists writes the decision, and
\* fails only if its own commit raises
ItemProcessed ==
    /\ \A task \in BagToSet(genTasks) :
          ( /\ process_bulk_remediations_check(task)
            /\ task.ids[task.idx] \in DOMAIN issues
            /\ OwnedPdf(issues[task.ids[task.idx]].pdf_id, task.user_id) )
              => ev'.result \in {"existing", "awaiting"}
    /\ \A task \in BagToSet(apprTasks) :
          ( /\ process_bulk_approvals_item(task)
            /\ task.ids[task.idx] \in DOMAIN plans )
              => ev'.result \in {"updated", "commit_raised"}

\* C6: in the bulk generation and bulk approval loops every item handed to the
\* loop is counted exactly once, as successful or as failed, whatever its
\* outcome, so that at termination successful + failed is the number of items,
\* also when every item fails; and a failure on one item never prevents the
\* remaining items from being processed.
C6_FailureIsolated == []BulkAccounting /\ [][ItemProcessed]_vars

\* C6 witness: a bulk approval run of two plans has ended with both counted as
\* failed: the commit of the first plan raised, and the pass on the second plan,
\* which exists, failed on the session the first one left behind.
C6_Witness ==
    /\ ev.op = "bulk_approve_item"
    /\ ev.result = "session_raised"
    /\ ev.target \in DOMAIN plans
    /\ \E t \in BagToSet(apprTasks) :
          t.pc = "done" /\ Len(t.ids) = 2 /\ t.broken /\ t.failed = 2 /\ t.successful = 0

(***************************************************************************)
(* Claims on bulk implementation, checked under SpecImpl; C9 is checked    *)
(* under SpecRace.                                                         *)
(***************************************************************************)
\* C7: when a bulk implementation run terminates, successful + failed equals the
\* number of plan identifiers selected for it, whatever happened to its groups.
C7_ImplAccounting ==
    \A t \in BagToSet(implTasks) :
        t.pc = "done" => t.successful + t.failed = Len(t.ids)

\* the number of plans in the group the task is at
GroupSize(task) == Len(CurrentGroup(task).rems)

\* C8: every pass over a document group counts all plans of the group as
\* successful or all of them as failed, and never adds to both counters.
C8_GroupAllOrNothing ==
    [][ \A task \in BagToSet(implTasks), commit \in CommitOutcomes :
          process_bulk_implementations_pdf(task, commit) =>
             LET after == TaskAfterGroup(task, commit) IN
             \/ /\ after.successful = task.successful + GroupSize(task)
                /\ after.failed = task.failed
             \/ /\ after.successful = task.successful
                /\ after.failed = task.failed + GroupSize(task) ]_vars

\* the applier is called for the task's current group and reports success
ApplierSucceeds(task) ==
    /\ ~task.broken
    /\ OwnedPdf(CurrentGroup(task).pdf_id, task.user_id)
    /\ implement_bulk_fixes(pdfs[CurrentGroup(task).pdf_id].file_path,
                            CurrentGroup(task).rems).success

\* the plans of the task's current group
GroupPlanIds(task) ==
    { CurrentGroup(task).rems[k].remediation_id : k \in 1..Len(CurrentGroup(task).rems) }

\* what C9 asserts of the store after a pass whose applier call reported success;
\* the plans of unwritten are left as the store has them
GroupImplemented(task, unwritten) ==
    LET d == CurrentGroup(task).pdf_id
        rems == CurrentGroup(task).rems
        returned == implement_bulk_fixes(pdfs[d].file_path, rems).fixed_file_path
    IN  /\ \A k \in 1..Len(rems) :
              rems[k].remediation_id \in DOMAIN plans =>
                 /\ rems[k].remediation_id \in DOMAIN plans'
                 /\ IF rems[k].remediation_id \in unwritten
                    THEN plans'[rems[k].remediation_id] = plans[rems[k].remediation_id]
                    ELSE plans'[rems[k].remediation_id].implementation_status = "implemented"
        /\ d \in DOMAIN pdfs'
        /\ pdfs'[d].file_path = IF returned # NoPath THEN returned ELSE pdfs[d].file_path

GroupFails(task, commit) ==
    GroupResult(task, commit) \in {"applier_failed", "pdf_missing", "session_raised"}

\* every plan of the failed group is counted as failed and nothing stored changes
GroupFailureFrame(task, commit) ==
    /\ TaskAfterGroup(task, commit).failed = task.failed + GroupSize(task)
    /\ TaskAfterGroup(task, commit).successful = task.successful
    /\ plans' = plans
    /\ pdfs' = pdfs

\* C10 as stated: when the pass for a document group fails, every plan of the
\* group is counted as failed, statuses, approval flags and file_path are
\* unchanged, and every plan of the group is selected by a later request.
C10_FailedGroupRetried ==
    [][ \A task \in BagToSet(implTasks), commit \in CommitOutcomes :
          process_bulk_implementations_pdf(task, commit) /\ GroupFails(task, commit)
             => /\ GroupFailureFrame(task, commit)
                /\ GroupPlanIds(task) \subseteq PlansToImplement(task.user_id, NoFilter)' ]_vars

\* C10, amended: when the pass for a document group fails, every plan of the
\* group is counted as failed, no plan and no document record changes, and every
\* plan of the group that a request would have selected before the pass is still
\* selected after it.
C10_FailedGroupUnchanged ==
    [][ \A task \in BagToSet(implTasks), commit \in CommitOutcomes :
          process_bulk_implementations_pdf(task, commit) /\ GroupFails(task, commit)
             => /\ GroupFailureFrame(task, commit)
                /\ GroupPlanIds(task) \cap PlansToImplement(task.user_id, NoFilter)
                      \subseteq PlansToImplement(task.user_id, NoFilter)' ]_vars

\* C10 witness: the applier has just failed on the two plans of document 1, both
\* were counted as failed and both are still selected by a request of their owner.
C10_Witness ==
    /\ ev.op = "bulk_implement_pdf"
    /\ ev.result = "applier_failed"
    /\ ev.target = 1
    /\ {110, 120} \subseteq PlansToImplement("u1", NoFilter)
    /\ \E t \in BagToSet(implTasks) : t.failed = 2 /\ t.successful = 0 /\ Len(t.ids) = 2

(***************************************************************************)
(* api/v1/remediation.py: reading and approving the plan of one issue      *)
(***************************************************************************)
\* GET /{issue_id}
get_remediation(u, i) ==
    /\ ev' = Event("get_remediation", u, i,
                   IF ExistingPlans(i) = {} THEN "404"
                   ELSE IF i \notin DOMAIN issues THEN "500"
                   ELSE IF ~OwnedPdf(issues[i].pdf_id, u) THEN "403"
                   ELSE "200")
    /\ UNCHANGED <<upReqs, dbVars, files, anTasks, genReqs, genTasks, apprTasks, implTasks>>

\* mutant of ApprovalUpdate: the flag is stored and the status is left alone
ApprovalUpdateMut(plan, approved) == [plan EXCEPT !.user_approved = approved]

\* remediation.user_approved = request.approved
\* remediation.implementation_status = "pending_implementation" if request.approved else "rejected"
ApprovalUpdate(plan, approved) ==
    [plan EXCEPT !.user_approved = approved,
                 !.implementation_status = IF approved THEN "pending_implementation" ELSE "rejected"]

\* PUT /{issue_id}/approve: the plan is looked up by the issue identifier alone
approve_remediation(u, i, approved) ==
    /\ IF ExistingPlans(i) = {}
       THEN /\ ev' = Event("approve", u, i, "404")
            /\ UNCHANGED plans
       ELSE \E p \in ExistingPlans(i), commit \in CommitOutcomes :
              IF commit = "ok"
              THEN /\ plans' = [plans EXCEPT ![p] = ApprovalUpdate(plans[p], approved)]
                   /\ ev' = Event("approve", u, i, "200")
              ELSE /\ ev' = Event("approve", u, i, "500")
                   /\ UNCHANGED plans
    /\ UNCHANGED <<upReqs, pdfs, issues, reports, nextId, files, anTasks, genReqs, genTasks,
                   apprTasks, implTasks>>

(***************************************************************************)
(* SpecPlan: the single-item plan operations (generate, read, approve) and *)
(* deletion, requested by the owner u1 and by the other user u2.  Document *)
(* 1 starts with no plan, with a fresh plan for issue 12, or with that     *)
(* plan approved and implemented by the bulk implementation.               *)
(***************************************************************************)
PlanStarts == {"no_plan", "generated", "implemented"}

InitPlan ==
    \E start \in PlanStarts :
        /\ pdfs = (1 :> AnalysedPdf("u1", IF start = "implemented"
                                           THEN generate_fixed_file_path(UploadPath(1))
                                           ELSE UploadPath(1)))
        /\ issues = (11 :> IssueRow(1, "missing_text", "critical"))
                    @@ (12 :> IssueRow(1, "missing_alt_text", "high"))
        /\ reports = (14 :> NewReportRow(1, AnalysisResult(TwoIssueFile.issues, TwoIssueFile.metadata)))
        /\ plans = IF start = "no_plan" THEN <<>>
                   ELSE IF start = "generated" THEN (120 :> NewPlanRow(12, "suggestion"))
                   ELSE (120 :> Implemented(ApprovedPlan(12)))
        /\ nextId = 20
        /\ files = [ path \in {UploadPath(1)}
                              \cup (IF start = "implemented"
                                    THEN {generate_fixed_file_path(UploadPath(1))} ELSE {})
                       |-> TwoIssueFile ]
        /\ anTasks = <<>>
        /\ genReqs = EmptyBag
        /\ genTasks = EmptyBag
        /\ apprTasks = EmptyBag
        /\ implTasks = EmptyBag
        /\ upReqs = <<>>
        /\ ev = Event("init", "-", 0, "-")

NextPlan ==
    \/ \E u \in Users, i \in GenIssueIds : generate_remediation_begin(u, i)
    \/ \E r \in BagToSet(genReqs) : generate_remediation_finish(r)
    \/ \E u \in Users, i \in GenIssueIds : get_remediation(u, i)
    \/ \E u \in Users, i \in GenIssueIds, approved \in BOOLEAN : approve_remediation(u, i, approved)
    \/ \E u \in Users, d \in GenPdfIds : delete_pdf(u, d)

SpecPlan == InitPlan /\ [][NextPlan]_vars

(***************************************************************************)
(* Claims on the single-item plan operations, checked under SpecPlan.      *)
(***************************************************************************)
\* C11: generate_remediation is idempotent per issue.  A call by the owner on an
\* issue that has a plan returns that plan (the issue has exactly one, so the
\* identifier returned is determined), never starts a generation, and writes
\* nothing: no plan is created and the stored plans, with their content, approval
\* flag and implementation status, are left as they are, whatever the plan's
\* status.  And the plan of an issue is never replaced by another one while the
\* issue exists, so successive calls return the same identifier.
C11_GenerateIdempotent ==
    [][ /\ (ev'.op = "generate" /\ ev'.result = "existing") =>
              /\ Cardinality(PlansOfIssue(ev'.target)) = 1
              /\ dbVars' = dbVars
        /\ (ev'.op = "generate" /\ ev'.result = "awaiting") =>
              PlansOfIssue(ev'.target) = {}
        /\ \A i \in DOMAIN issues' :
              PlansOfIssue(i) # {} =>
                  { p \in DOMAIN plans' : plans'[p].issue_id = i } = PlansOfIssue(i) ]_vars

\* C11 witness: the owner has just called generate_remediation on an issue whose
\* plan has been approved, rejected or implemented since it was generated, and
\* was handed the existing plan.
C11_Witness ==
    /\ ev.op = "generate"
    /\ ev.result = "existing"
    /\ ev.who = "u1"
    /\ \E p \in PlansOfIssue(ev.target) :
          plans[p].implementation_status \in {"rejected", "pending_implementation", "implemented"}

\* C12: an approval operation (approve_remediation, or one pass of the loop of
\* process_bulk_approvals) changes implementation_status only for a plan that is
\* currently "pending": a plan that is "rejected", "pending_implementation" or
\* "implemented" keeps its status across every approval step.
C12_ApprovalOnlyFromPending ==
    [][ ev'.op \in {"approve", "bulk_approve_item"} =>
          \A p \in DOMAIN plans \cap DOMAIN plans' :
              plans[p].implementation_status # "pending" =>
                  plans'[p].implementation_status = plans[p].implementation_status ]_vars

\* C13: a single-item operation called by a user who does not own the target's
\* document (the document itself for start_analysis and get_analysis, the
\* document of the issue for generate_remediation, get_remediation and
\* approve_remediation) answers not-found or forbidden and leaves every stored
\* document, issue, report and plan as it was.
C13_NonOwnerRefused ==
    [][ ( \/ /\ ev'.op \in {"generate", "get_remediation", "approve"}
             /\ ev'.target \in DOMAIN issues
             /\ ~OwnedPdf(issues[ev'.target].pdf_id, ev'.who)
          \/ /\ ev'.op \in {"start_analysis", "get_analysis"}
             /\ ~OwnedPdf(ev'.target, ev'.who) )
        => /\ ev'.result \in {"403", "404"}
           /\ dbVars' = dbVars ]_vars

(***************************************************************************)
(* SpecApprove: bulk approval with two owners.  u1 owns document 1 with    *)
(* the plan 110, u2 owns document 2 with the plan 210, and every request   *)
(* names at least one plan of a document the requester does not own.       *)
(* Documents are deleted while the loops run.                              *)
(***************************************************************************)
ApprovePdfIds == {1, 2}

ApprovePlanIds == {110, 210}

InitApprove ==
    /\ pdfs = (1 :> AnalysedPdf("u1", UploadPath(1))) @@ (2 :> AnalysedPdf("u2", UploadPath(2)))
    /\ LET file1 == [ issues |-> <<IssueDraft("missing_text", "critical")>>,
                      metadata |-> [is_tagged |-> FALSE, title |-> ""] ]
       IN  /\ files = (UploadPath(1) :> file1) @@ (UploadPath(2) :> OneImageFile)
           /\ issues = NewIssueRows(1, file1.issues, 11) @@ NewIssueRows(2, OneImageFile.issues, 21)
           /\ reports = (14 :> NewReportRow(1, AnalysisResult(file1.issues, file1.metadata)))
                        @@ (24 :> NewReportRow(2, AnalysisResult(OneImageFile.issues,
                                                                 OneImageFile.metadata)))
    /\ plans = (110 :> NewPlanRow(11, "suggestion")) @@ (210 :> NewPlanRow(21, "suggestion"))
    /\ nextId = 30
    /\ anTasks = <<>>
    /\ genReqs = EmptyBag
    /\ genTasks = EmptyBag
    /\ apprTasks = EmptyBag
    /\ implTasks = EmptyBag
    /\ upReqs = <<>>
    /\ ev = Event("init", "-", 0, "-")

\* the request bodies of u that name a plan of another user's document
RequestsWithForeignPlan(u) ==
    { rids \in SUBSET ApprovePlanIds :
        \E p \in rids : p \in DOMAIN plans /\ ~OwnedPlan(p, u) }

NextApprove ==
    \/ \E u \in Users, approved \in BOOLEAN :
          \E rids \in RequestsWithForeignPlan(u) : approve_bulk_remediations(u, rids, approved)
    \/ \E task \in BagToSet(apprTasks) : process_bulk_approvals_item(task)
    \/ \E task \in BagToSet(apprTasks) : process_bulk_approvals_return(task)
    \/ \E u \in Users, d \in ApprovePdfIds : delete_pdf(u, d)

SpecApprove == InitApprove /\ [][NextApprove]_vars

(***************************************************************************)
(* Claims on bulk approval across owners, checked under SpecApprove.       *)
(***************************************************************************)
\* C14: in bulk approval the plans of documents the requester does not own are
\* left out of the processed set.  The total of the response is the length of
\* the identifier list handed to the background task, every stored plan in that
\* list belongs to the requester, and no step of the request or of its loop
\* (which counts only the listed items) changes or removes a plan of another
\* user's document.
C14_ForeignPlansExcluded ==
    [][ /\ (ev'.op = "bulk_approve" /\ ev'.result = "200") =>
              \E t \in BagToSet(apprTasks') :
                  /\ t = NewBulkTask(t.ids, ev'.who, t.approved)
                  /\ Len(t.ids) = ev'.target
                  /\ \A k \in 1..Len(t.ids) : OwnedPlan(t.ids[k], ev'.who)
        /\ \A t \in BagToSet(apprTasks') :
              /\ t.successful + t.failed <= Len(t.ids)
              /\ \A k \in 1..Len(t.ids) :
                    t.ids[k] \in DOMAIN plans => OwnedPlan(t.ids[k], t.user_id)
        /\ ev'.op \in {"bulk_approve", "bulk_approve_item", "bulk_approve_return"} =>
              \A p \in DOMAIN plans :
                  ~OwnedPlan(p, ev'.who) => p \in DOMAIN plans' /\ plans'[p] = plans[p] ]_vars

\* C14 witness: the loop of a request of u1, which named a plan of u2's document,
\* has finished with every listed plan updated, and the plan of u2's document is
\* still unapproved and pending.
C14_Witness ==
    /\ ev.op = "bulk_approve_item"
    /\ ev.who = "u1"
    /\ \E t \in BagToSet(apprTasks) :
          /\ t.user_id = "u1"
          /\ t.pc = "done"
          /\ t.successful = Len(t.ids)
          /\ \A k \in 1..Len(t.ids) : plans[t.ids[k]].implementation_status # "pending"
    /\ 210 \in DOMAIN plans
    /\ plans[210] = NewPlanRow(21, "suggestion")

(***************************************************************************)
(* Claims on what the caller of a bulk operation is told, checked under    *)
(* SpecBulk.                                                               *)
(***************************************************************************)
\* BulkRemediationResponse(total_processed=len(...), successful=0, failed=0, ...):
\* the body the three bulk endpoints return when they have dispatched a task.
\* Nothing writes to it afterwards, and no endpoint reports the counters of a task.
BulkRemediationResponse(total) ==
    [ total_processed |-> total, successful |-> 0, failed |-> 0 ]

\* C15: once a dispatched bulk job (generation, approval or implementation) has
\* run to completion, the successful and failed counts the caller was given equal
\* the numbers of items that succeeded and failed in the job, and sum to the total.
C15_CallerSeesCounts ==
    \A t \in LoopTasks \cup BagToSet(implTasks) :
        t.pc = "done" =>
            LET response == BulkRemediationResponse(Len(t.ids))
            IN  /\ response.successful = t.successful
                /\ response.failed = t.failed
                /\ response.successful + response.failed = response.total_processed

(***************************************************************************)
(* Claims on failures of the text generation, checked under SpecGen.       *)
(***************************************************************************)
\* C16: when the text generation fails for an issue, single generation and the
\* bulk generation loop do not end with an error and no plan: once the step in
\* which the generation failed is over, the issue (if it still exists) has a
\* plan, the placeholder.
C16_GenerationFailureDegrades ==
    [][ ( /\ ev'.op \in {"generate", "bulk_generate_item"}
          /\ ev'.result = "generation_raised"
          /\ ev'.target \in DOMAIN issues' )
        => \E p \in DOMAIN plans' : plans'[p].issue_id = ev'.target ]_vars

(***************************************************************************)
(* api/v1/analysis.py: reading the analysis of a document                  *)
(***************************************************************************)
ReportsOfPdf(d) == { r \in DOMAIN reports : reports[r].pdf_id = d }

\* AnalysisReport.generated_at, default=datetime.utcnow: the reading of the clock
\* when the row is inserted.  Report rows get their identifiers in the order of
\* their insertion, so the identifier stands for the instant of a clock that does
\* not go back.
generated_at(r) == r

\* mutant of LatestReports: the query orders by generated_at ascending
LatestReportsMut(d) ==
    { r \in ReportsOfPdf(d) : \A q \in ReportsOfPdf(d) : generated_at(r) <= generated_at(q) }

\* .order_by(AnalysisReport.generated_at.desc()).first()
LatestReports(d) ==
    { r \in ReportsOfPdf(d) : \A q \in ReportsOfPdf(d) : generated_at(q) <= generated_at(r) }

\* GET /{pdf_id}: the event of a 200 response carries the report it was built from
get_analysis(u, d) ==
    /\ IF ~OwnedPdf(d, u)
       THEN ev' = Event("get_analysis", u, d, "404")
       ELSE IF ReportsOfPdf(d) = {}
       THEN ev' = Event("get_analysis", u, d, "no_report")
       ELSE \E r \in LatestReports(d) :
              ev' = [ op |-> "get_analysis", who |-> u, target |-> d, result |-> "200",
                      report |-> r ]
    /\ UNCHANGED <<upReqs, dbVars, files, anTasks, genReqs, genTasks, apprTasks, implTasks>>

(***************************************************************************)
(* SpecReports: the analysis workflow of SpecAnalysis together with the    *)
(* reading of the results.                                                 *)
(***************************************************************************)
NextReports ==
    \/ \E u \in Users, d \in AnalysisPdfIds : start_analysis(u, d)
    \/ \E t \in 1..MaxAnalysisTasks : analyze_pdf_task_begin(t)
    \/ \E t \in 1..MaxAnalysisTasks : analyze_pdf_task_run(t)
    \/ \E u \in Users, d \in AnalysisPdfIds : get_analysis(u, d)

SpecReports == InitAnalysis /\ [][NextReports]_vars

(***************************************************************************)
(* Claims on repeated analysis, checked under SpecReports.                 *)
(***************************************************************************)
\* C17: a start_analysis call by the owner on a document whose status is
\* "completed" or "failed" is accepted; a run that completes adds exactly one
\* report, for its document; no step changes or removes a report that is stored;
\* and a get_analysis response is built from a report of the document that has the
\* latest generation timestamp.
C17_RerunAddsReport ==
    [][ /\ ( /\ ev'.op = "start_analysis"
             /\ OwnedPdf(ev'.target, ev'.who)
             /\ pdfs[ev'.target].processing_status \in {"completed", "failed"} )
           => ev'.result = "202"
        /\ (ev'.op = "analyze_run" /\ ev'.result = "completed")
           => \E r \in DOMAIN reports' \ DOMAIN reports :
                 /\ DOMAIN reports' = DOMAIN reports \cup {r}
                 /\ reports'[r].pdf_id = ev'.target
        /\ \A r \in DOMAIN reports : r \in DOMAIN reports' /\ reports'[r] = reports[r]
        /\ (ev'.op = "get_analysis" /\ ev'.result = "200")
           => /\ ev'.report \in ReportsOfPdf(ev'.target)
              /\ \A q \in ReportsOfPdf(ev'.target) : generated_at(q) <= generated_at(ev'.report) ]_vars

\* C17 witness: document 1 has been analysed twice, both runs completed and both
\* reports are stored, and the owner has just been given the analysis built from
\* the newer one.
C17_Witness ==
    /\ ev.op = "get_analysis"
    /\ ev.result = "200"
    /\ ev.target = 1
    /\ Cardinality(ReportsOfPdf(1)) = 2
    /\ \A q \in ReportsOfPdf(1) : q <= ev.report
    /\ \A t \in DOMAIN anTasks : anTasks[t].pc = "completed"

(***************************************************************************)
(* SpecDelete: deletion of documents that have issues, reports and plans,  *)
(* while analysis runs and generation requests for them are in flight.     *)
(* Document 1 (owner u1) starts with two issues, one report and one plan,  *)
(* document 2 (owner u2), analysed twice, with two issues, two reports and *)
(* an approved plan for the issue of its first run; the runs and           *)
(* generations u1 requests for document 1 add to them.                     *)
(***************************************************************************)
DeleteIssueIds == {11, 12}

InitDelete ==
    /\ pdfs = (1 :> AnalysedPdf("u1", UploadPath(1))) @@ (2 :> AnalysedPdf("u2", UploadPath(2)))
    /\ issues = (11 :> IssueRow(1, "missing_text", "critical"))
                @@ (12 :> IssueRow(1, "missing_alt_text", "high"))
                @@ (21 :> IssueRow(2, "missing_alt_text", "high"))
                @@ (22 :> IssueRow(2, "missing_alt_text", "high"))
    /\ reports = (14 :> NewReportRow(1, AnalysisResult(TwoIssueFile.issues, TwoIssueFile.metadata)))
                 @@ (24 :> NewReportRow(2, AnalysisResult(OneImageFile.issues, OneImageFile.metadata)))
                 @@ (25 :> NewReportRow(2, AnalysisResult(OneImageFile.issues, OneImageFile.metadata)))
    /\ plans = (110 :> NewPlanRow(11, "suggestion")) @@ (210 :> ApprovedPlan(21))
    /\ nextId = 30
    /\ files = (UploadPath(1) :> TwoIssueFile) @@ (UploadPath(2) :> OneImageFile)
    /\ anTasks = <<>>
    /\ genReqs = EmptyBag
    /\ genTasks = EmptyBag
    /\ apprTasks = EmptyBag
    /\ implTasks = EmptyBag
    /\ upReqs = <<>>
    /\ ev = Event("init", "-", 0, "-")

NextDelete ==
    \/ \E u \in Owners, d \in GenPdfIds : start_analysis(u, d)
    \/ \E t \in 1..MaxAnalysisTasks : analyze_pdf_task_begin(t)
    \/ \E t \in 1..MaxAnalysisTasks : analyze_pdf_task_run(t)
    \/ \E u \in Owners, i \in DeleteIssueIds : generate_remediation_begin(u, i)
    \/ \E r \in BagToSet(genReqs) : generate_remediation_finish(r)
    \/ \E u \in Users, d \in AnalysisPdfIds : delete_pdf(u, d)

SpecDelete == InitDelete /\ [][NextDelete]_vars

(***************************************************************************)
(* Claims on deletion, checked under SpecDelete.                           *)
(***************************************************************************)
\* C18: when delete_pdf succeeds for a document, the document is gone and no
\* issue, no report and no plan (through its issue) of that document is stored
\* any more, however many there were; and in every state every stored issue and
\* report belongs to a stored document and every stored plan to a stored issue,
\* so that a run or a generation that was in flight brings none of them back.
C18_DeleteCascades ==
    [][ /\ (ev'.op = "delete_pdf" /\ ev'.result = "204") =>
              /\ ev'.target \notin DOMAIN pdfs'
              /\ \A i \in DOMAIN issues' : issues'[i].pdf_id # ev'.target
              /\ \A r \in DOMAIN reports' : reports'[r].pdf_id # ev'.target
              /\ \A p \in DOMAIN plans' :
                    plans'[p].issue_id \in DOMAIN issues =>
                        issues[plans'[p].issue_id].pdf_id # ev'.target
        /\ \A i \in DOMAIN issues' : issues'[i].pdf_id \in DOMAIN pdfs'
        /\ \A r \in DOMAIN reports' : reports'[r].pdf_id \in DOMAIN pdfs'
        /\ \A p \in DOMAIN plans' : plans'[p].issue_id \in DOMAIN issues' ]_vars

\* C18 witness: document 1, which had at least two issues, a report and a plan,
\* has just been deleted, after a run had added rows to the store and while an
\* analysis run of document 1 and a generation request are still in flight.
C18_Witness ==
    /\ ev.op = "delete_pdf"
    /\ ev.result = "204"
    /\ ev.target = 1
    /\ nextId > 30
    /\ \E t \in DOMAIN anTasks : anTasks[t].pdf_id = 1 /\ anTasks[t].pc = "analyzing"
    /\ genReqs # EmptyBag

(***************************************************************************)
(* SpecScore: the scorer and the tier function applied by a run of         *)
(* analyze_pdf_task.  The run starts in the state after its "analyzing"    *)
(* commit.  The stored file is given page by page, so that its issue list  *)
(* is the one the two detector passes compute: up to MaxScorePages pages.  *)
(* A page has no text, no text block and up to MaxImages images; or it has *)
(* ten characters or more, a text block with lines and up to MaxImages     *)
(* images; or it has text and one table, a two-row table without headers   *)
(* or a table of eleven rows and six columns with headers.  No extraction  *)
(* call raises.                                                            *)
(* Three pages without text that carry two images each bring the sum of    *)
(* the penalties above 100.                                                *)
(***************************************************************************)
MaxScorePages == 3

MaxImages == 2

\* one issue of each severity the detector passes report
ScoreDrafts ==
    { IssueDraft("missing_text", "critical"), IssueDraft("missing_alt_text", "high"),
      IssueDraft("complex_table", "medium"), IssueDraft("potential_contrast_issue", "low") }

\* a table of n rows with the given first row
TableOf(first, n) == [r \in 1..n |-> IF r = 1 THEN first ELSE [j \in DOMAIN first |-> "x"]]

\* what extract_tables returns for a page with tables: a table whose first row
\* is empty cells, or a table of eleven rows and six columns with headers
ScoreTables ==
    { <<TableOf(<<"", "">>, 2)>>, <<TableOf([j \in 1..6 |-> "Name"], 11)>> }

\* a page without text, which has no text block and no table; a page with text
\* and no table; a page with text, no image and a table of ScoreTables
ScorePages ==
    { [text |-> t, tables |-> <<>>, images |-> n, blocks |-> t > 0, raises |-> "none"] :
        t \in {0, 2}, n \in 0..MaxImages }
        \cup { [text |-> 2, tables |-> tb, images |-> 0, blocks |-> TRUE, raises |-> "none"] :
                 tb \in ScoreTables }

ScoreDocuments == UNION { [1..n -> ScorePages] : n \in 0..MaxScorePages }

ScoreMetadatas ==
    { [is_tagged |-> t, title |-> ttl] : t \in BOOLEAN, ttl \in {"", "Report"} }

AnalyzingPdf(u, path) ==
    [user_id |-> u, processing_status |-> "analyzing", file_path |-> path]

InitScore ==
    /\ pdfs = (1 :> AnalyzingPdf("u1", UploadPath(1)))
    /\ issues = <<>>
    /\ reports = <<>>
    /\ plans = <<>>
    /\ nextId = 10
    /\ \E d \in ScoreDocuments, m \in ScoreMetadatas :
          files = (UploadPath(1) :> [pages |-> d, metadata |-> m])
    /\ anTasks = <<[pdf_id |-> 1, pc |-> "analyzing"]>>
    /\ genReqs = EmptyBag
    /\ genTasks = EmptyBag
    /\ apprTasks = EmptyBag
    /\ implTasks = EmptyBag
    /\ upReqs = <<>>
    /\ ev = Event("analyze_begin", "-", 1, "analyzing")

NextScore == \E t \in DOMAIN anTasks : analyze_pdf_task_run(t)

SpecScore == InitScore /\ [][NextScore]_vars

(***************************************************************************)
(* Claims on the scorer, checked under SpecScore.                          *)
(***************************************************************************)
\* the number of issues of a list that have the given severity
CountSeverity(iss, sev) == Cardinality({ k \in DOMAIN iss : iss[k].severity = sev })

\* the claimed closed form of the score
ClaimedScore(iss, metadata) ==
    Max(0, Min(100, 100 - 15 * CountSeverity(iss, "critical")
                        - 10 * CountSeverity(iss, "high")
                        - 5 * CountSeverity(iss, "medium")
                        - 2 * CountSeverity(iss, "low")
                        + (IF metadata.is_tagged THEN 10 ELSE 0)
                        + (IF metadata.title # "" THEN 5 ELSE 0)))

\* the file a report was computed from
ScoredFile(r) == files[pdfs[reports[r].pdf_id].file_path]

\* the issue list the detector passes report for that file
ScoredIssues(r) == DetectedIssues(pdfs[reports[r].pdf_id].file_path)

\* C19: the score stored for an issue list and a metadata record is
\* clamp(100 - 15*critical - 10*high - 5*medium - 2*low + 10*[is_tagged]
\* + 5*[title non-empty], 0, 100), clamped once at the end; it lies in 0..100,
\* it is 100 for an empty issue list, and the list with one more issue of any
\* severity does not score higher.
C19_ScoreFormula ==
    \A r \in DOMAIN reports :
        LET iss == ScoredIssues(r)
            metadata == ScoredFile(r).metadata
            score == reports[r].overall_score
        IN  /\ score = ClaimedScore(iss, metadata)
            /\ score \in 0..100
            /\ iss = <<>> => score = 100
            /\ \A d \in ScoreDrafts :
                  calculate_accessibility_score(Append(iss, d), metadata) <= score

\* C19 witness: a run has stored the report of a tagged file with a title whose
\* three pages have no text and two images each: three critical, six high and
\* one medium issue bring the sum to -10, the bonuses to 5, and the stored score
\* is 5.
C19_Witness ==
    \E r \in DOMAIN reports :
        /\ reports[r].critical_issues = 3
        /\ reports[r].high_issues = 6
        /\ reports[r].medium_issues = 1
        /\ reports[r].total_issues = 10
        /\ ScoredFile(r).metadata.is_tagged
        /\ ScoredFile(r).metadata.title # ""
        /\ reports[r].overall_score = 5

(***************************************************************************)
(* Claims on the compliance tier, checked under SpecScore.  A stored       *)
(* report has at most as many low issues as high ones, since the contrast  *)
(* issue of a page comes with the issue of each of its images.  The stored *)
(* scores therefore include 90, 75, 74, 60 and 59 but never 89: it needs a *)
(* penalty of 11, 16, 21 or 26, a penalty that ends in 1 or 6 needs three  *)
(* low issues, and three low with three high issues cost 36.               *)
(***************************************************************************)
\* the claimed tier of a score
ClaimedTier(score) ==
    CASE score >= 90 -> "AAA"
      [] score >= 75 /\ score < 90 -> "AA"
      [] score >= 60 /\ score < 75 -> "A"
      [] OTHER -> "Non-compliant"

\* the scores at and just below the three thresholds, with their tiers
TierBoundaries ==
    (90 :> "AAA") @@ (89 :> "AA") @@ (75 :> "AA") @@ (74 :> "A") @@ (60 :> "A")
    @@ (59 :> "Non-compliant")

\* C20: the tier of every score in 0..100 is "AAA" from 90, "AA" from 75 to 89,
\* "A" from 60 to 74 and "Non-compliant" below 60; in particular 90 -> AAA,
\* 89 -> AA, 75 -> AA, 74 -> A, 60 -> A, 59 -> Non-compliant; and the tier stored
\* in a report is the tier of the score stored in the same report.
C20_TierOfScore ==
    /\ \A score \in 0..100 : determine_wcag_level(score) = ClaimedTier(score)
    /\ \A score \in DOMAIN TierBoundaries : determine_wcag_level(score) = TierBoundaries[score]
    /\ \A r \in DOMAIN reports :
          LET score == reports[r].overall_score
              tier == reports[r].wcag_compliance_level
          IN  /\ score \in 0..100
              /\ tier = ClaimedTier(score)
              /\ score \in DOMAIN TierBoundaries => tier = TierBoundaries[score]

\* C20 witness: a run has stored the report of a tagged file without title whose
\* three pages have text and one image each: three high and three low issues,
\* the score 74, one below the second threshold, and the tier "A".
C20_Witness ==
    \E r \in DOMAIN reports :
        /\ reports[r].high_issues = 3
        /\ reports[r].low_issues = 3
        /\ reports[r].total_issues = 6
        /\ reports[r].overall_score = 74
        /\ reports[r].wcag_compliance_level = "A"

(***************************************************************************)
(* Claims on the severity counts, checked under SpecScore.                 *)
(***************************************************************************)
\* C21: in every stored report, and in the analysis result it was copied from,
\* critical_issues + high_issues + medium_issues + low_issues = total_issues.
C21_CountsSumToTotal ==
    \A r \in DOMAIN reports :
        LET res == AnalysisResult(ScoredIssues(r), ScoredFile(r).metadata)
        IN  /\ reports[r].critical_issues + reports[r].high_issues
                 + reports[r].medium_issues + reports[r].low_issues = reports[r].total_issues
            /\ res.critical_issues + res.high_issues + res.medium_issues + res.low_issues
                 = res.total_issues
            /\ reports[r].total_issues = Len(ScoredIssues(r))

\* C21 witness: a run has stored the report of a file whose first page has no
\* text and one image and whose second page has text and one image: one
\* critical, two high, one medium and one low issue, five issues in all.
C21_Witness ==
    \E r \in DOMAIN reports :
        /\ reports[r].critical_issues = 1
        /\ reports[r].high_issues = 2
        /\ reports[r].medium_issues = 1
        /\ reports[r].low_issues = 1
        /\ reports[r].total_issues = 5

(***************************************************************************)
(* Analysis of a file given page by page.  The document is in "analyzing"  *)
(* and its task is about to run; the file is a page with one table, or a   *)
(* sequence of pages with text, images and extraction calls that raise.    *)
(***************************************************************************)
MaxPages == 2
MaxRows == 2
MaxCells == 3

\* the table without rows, the tables of up to MaxRows rows and MaxCells columns
\* with every first row of empty cells, blanks and words, and tables of eleven
\* rows and six columns
Tables ==
    {<<>>}
        \cup { TableOf(first, n) :
                 first \in UNION { [1..c -> {"", " ", "Name"}] : c \in 0..MaxCells },
                 n \in 1..MaxRows }
        \cup { TableOf([j \in 1..6 |-> cell], 11) : cell \in {"", " ", "Name"} }

TablePage(table) ==
    [text |-> 2, tables |-> <<table>>, images |-> 0, blocks |-> TRUE, raises |-> "none"]

\* a page with one table, one page without tables, or up to MaxPages pages
\* without tables that have text blocks
PageDocuments ==
    LET FeaturePages(blocks) ==
            [text : {0, 2}, tables : {<<>>}, images : 0..1, blocks : blocks,
             raises : {"none", "extract_text", "extract_tables", "get_images", "get_text"}]
    IN  { <<TablePage(table)>> : table \in Tables }
            \cup { <<p>> : p \in FeaturePages(BOOLEAN) }
            \cup UNION { [1..n -> FeaturePages({TRUE})] : n \in 2..MaxPages }

InitPages ==
    /\ pdfs = (1 :> AnalyzingPdf("u1", UploadPath(1)))
    /\ issues = <<>>
    /\ reports = <<>>
    /\ plans = <<>>
    /\ nextId = 10
    /\ \E d \in PageDocuments, ttl \in {"", "Report"} :
          files = (UploadPath(1) :>
                      [pages |-> d, metadata |-> [is_tagged |-> FALSE, title |-> ttl]])
    /\ anTasks = <<[pdf_id |-> 1, pc |-> "analyzing"]>>
    /\ genReqs = EmptyBag
    /\ genTasks = EmptyBag
    /\ apprTasks = EmptyBag
    /\ implTasks = EmptyBag
    /\ upReqs = <<>>
    /\ ev = Event("analyze_begin", "-", 1, "analyzing")

SpecPages == InitPages /\ [][NextScore]_vars

\* the stored issues of a document with the given type and severity
StoredIssues(d, type, sev) ==
    { i \in IssuesOfPdf(d) : issues[i].issue_type = type /\ issues[i].severity = sev }

\* the pages of the file a stored report was computed from
PagesOf(r) == ScoredFile(r).pages

\* C22, as amended: after the analysis of a page with one table, a table of at
\* least two rows whose first row has cells has a stored high-severity
\* table_missing_headers issue if and only if fewer than half of the cells of
\* its first row are non-empty; a table of fewer than two rows, or with a first
\* row without cells, always has one.
C22_HeadersOfTablesWithBody ==
    \A r \in DOMAIN reports :
        (Len(PagesOf(r)) = 1 /\ Len(PagesOf(r)[1].tables) = 1) =>
            LET n == Cardinality(StoredIssues(reports[r].pdf_id, "table_missing_headers", "high"))
                table == PagesOf(r)[1].tables[1]
            IN  /\ n \in {0, 1}
                /\ IF Len(table) >= 2 /\ table[1] # <<>>
                   THEN (n = 1) <=> (2 * NonEmptyCells(table[1]) < Len(table[1]))
                   ELSE n = 1

\* a table of two rows whose first row has one cell with a word, one with a
\* blank and one empty has been analysed and has its issue
C22_Witness ==
    \E r \in DOMAIN reports :
        /\ PagesOf(r) = <<TablePage(TableOf(<<"Name", " ", "">>, 2))>>
        /\ Cardinality(StoredIssues(reports[r].pdf_id, "table_missing_headers", "high")) = 1

\* C22, as stated: for a table of any number of rows whose first row has cells,
\* the issue is stored if and only if fewer than half of the cells of the first
\* row are non-empty
C22_HeadersOfAnyTable ==
    \A r \in DOMAIN reports :
        (Len(PagesOf(r)) = 1 /\ Len(PagesOf(r)[1].tables) = 1) =>
            LET table == PagesOf(r)[1].tables[1]
            IN  (table # <<>> /\ table[1] # <<>>) =>
                    ((StoredIssues(reports[r].pdf_id, "table_missing_headers", "high") # {})
                        <=> (2 * NonEmptyCells(table[1]) < Len(table[1])))

\* C23: after an analysis, a document whose title metadata is empty has exactly
\* one stored medium-severity missing_title issue, and a document with a title
\* has none
C23_MissingTitleIssue ==
    \A r \in DOMAIN reports :
        Cardinality(StoredIssues(reports[r].pdf_id, "missing_title", "medium"))
            = IF ScoredFile(r).metadata.title = "" THEN 1 ELSE 0

\* C24: after an analysis, every document has exactly one stored
\* medium-severity language advisory issue
C24_LanguageAdvisoryIssue ==
    \A r \in DOMAIN reports :
        Cardinality(StoredIssues(reports[r].pdf_id, "missing_language", "medium")) = 1

\* C25: after an analysis in which extraction calls raised on some pages, the
\* stored issues are at least as many as the issues of the pages on which no
\* call raised, each examined as in a run without failures
C25_LaterPagesExamined ==
    \A r \in DOMAIN reports :
        LET ps == PagesOf(r)
            clean == [k \in DOMAIN ps |-> [ps[k] EXCEPT !.raises = "none"]]
            expected == SelectSeq(analyze_content(clean, 1) \o analyze_structure(clean, 1),
                                  LAMBDA d : ps[d.page_number].raises = "none")
        IN  Cardinality(IssuesOfPdf(reports[r].pdf_id)) >= Len(expected)

(***************************************************************************)
(* Approval decisions racing with bulk implementation.  User u1 owns one   *)
(* analysed document, the page with text, an image and a table without     *)
(* headers, with an approved plan for its table issue and one for its      *)
(* image issue; u1 approves and rejects the plans, singly and in bulk, and *)
(* requests bulk implementation, while the background tasks run.  Bulk     *)
(* implementation is requested as long as the document still has the file  *)
(* it was uploaded with.                                                   *)
(***************************************************************************)
InitRace ==
    /\ pdfs = (1 :> AnalysedPdf("u1", UploadPath(1)))
    /\ LET res1 == AnalysisResult(analyze_content(ImplFile1.pages, 1)
                                     \o analyze_structure(ImplFile1.pages, 1), ImplFile1.metadata)
       IN  /\ issues = NewIssueRows(1, res1.issues, 11)
           /\ reports = (14 :> NewReportRow(1, res1))
    /\ plans = (110 :> ApprovedPlan(11)) @@ (120 :> ApprovedPlan(12))
    /\ nextId = 20
    /\ files = (UploadPath(1) :> ImplFile1)
    /\ anTasks = <<>>
    /\ genReqs = EmptyBag
    /\ genTasks = EmptyBag
    /\ apprTasks = EmptyBag
    /\ implTasks = EmptyBag
    /\ upReqs = <<>>
    /\ ev = Event("init", "-", 0, "-")

NextRace ==
    \/ \E i \in {11, 12}, approved \in BOOLEAN : approve_remediation("u1", i, approved)
    \/ \E approved \in BOOLEAN : approve_bulk_remediations("u1", {110, 120}, approved)
    \/ \E task \in BagToSet(apprTasks) : process_bulk_approvals_item(task)
    \/ \E task \in BagToSet(apprTasks) : process_bulk_approvals_return(task)
    \/ /\ pdfs[1].file_path = UploadPath(1)
       /\ implement_bulk_remediations("u1", NoFilter)
    \/ \E task \in BagToSet(implTasks) : process_bulk_implementations_group(task)
    \/ \E task \in BagToSet(implTasks), commit \in CommitOutcomes :
          process_bulk_implementations_pdf(task, commit)
    \/ \E task \in BagToSet(implTasks) : process_bulk_implementations_return(task)

SpecRace == InitRace /\ [][NextRace]_vars

\* C26: a plan whose implementation_status is "implemented" has user_approved
\* true, so a plan rejected after its selection is not made "implemented"
C26_ImplementedIsApproved ==
    \A p \in DOMAIN plans :
        plans[p].implementation_status = "implemented" => plans[p].user_approved

(***************************************************************************)
(* Claims on the reading of results after re-runs and on the analysis of   *)
(* a file that cannot be opened.                                           *)
(***************************************************************************)
\* the issues get_analysis returns: every issue row of the document
ReturnedIssues(d) == IssuesOfPdf(d)

\* C27: when every analysis run so far has completed, a 200 response of
\* get_analysis returns as many issues as the total_issues of the report it
\* returns
C27_ReturnedIssuesMatchReport ==
    (/\ ev.op = "get_analysis"
     /\ ev.result = "200"
     /\ \A t \in DOMAIN anTasks : anTasks[t].pc = "completed")
        => Cardinality(ReturnedIssues(ev.target)) = reports[ev.report].total_issues

\* C28: a document whose file cannot be opened is not "completed" with a stored
\* report of zero issues, score 100 and level AAA
C28_UnreadableFileNotCompleted ==
    \A d \in DOMAIN pdfs :
        pdfs[d].file_path \notin DOMAIN files =>
            ~ /\ pdfs[d].processing_status = "completed"
              /\ \E r \in ReportsOfPdf(d) :
                    /\ reports[r].total_issues = 0
                    /\ reports[r].overall_score = 100
                    /\ reports[r].wcag_compliance_level = "AAA"

(***************************************************************************)
(* Claim on the issue types the fixer implements, checked under SpecImpl.  *)
(***************************************************************************)
\* the issue types _analyze_content and _analyze_structure emit
AnalyzerIssueTypes ==
    { "missing_text", "table_missing_headers", "complex_table", "missing_alt_text",
      "missing_heading_structure", "potential_contrast_issue" }

\* C29: a pass of bulk implementation over a document group made only of plans
\* for analyzer-emitted issue types, on an owned document with a readable file
\* on which no call of a fix method raises, and with a working session, does not
\* end with no fix applied
C29_AnalyzerGroupsSucceed ==
    [][ \A task \in BagToSet(implTasks), commit \in CommitOutcomes :
          ( /\ process_bulk_implementations_pdf(task, commit)
            /\ ~task.broken
            /\ OwnedPdf(CurrentGroup(task).pdf_id, task.user_id)
            /\ pdfs[CurrentGroup(task).pdf_id].file_path \in DOMAIN files
            /\ fix_missing_alt_text(files[pdfs[CurrentGroup(task).pdf_id].file_path])
            /\ \A k \in 1..Len(CurrentGroup(task).rems) :
                  /\ CurrentGroup(task).rems[k].issue_type \in AnalyzerIssueTypes
                  /\ CurrentGroup(task).rems[k].remediation_id \in DOMAIN plans
                  /\ plans[CurrentGroup(task).rems[k].remediation_id].user_approved )
          => GroupResult(task, commit) # "applier_failed" ]_vars

(***************************************************************************)
(* The analysis workflow with its scheduling: a background task that has   *)
(* been added is run, and a task that is running takes its next step.      *)
(***************************************************************************)
SpecAnalysisFair ==
    /\ SpecAnalysis
    /\ \A t \in 1..MaxAnalysisTasks :
          WF_vars(analyze_pdf_task_begin(t)) /\ WF_vars(analyze_pdf_task_run(t))

\* C30: a document that is "analyzing" eventually is "completed" or "failed"
C30_AnalyzingEventuallyEnds ==
    \A d \in AnalysisPdfIds :
        (pdfs[d].processing_status = "analyzing")
            ~> (pdfs[d].processing_status \in {"completed", "failed"})

====
